---- MODULE Spec2Model ----
(***************************************************************************)
(* ONEA-OPT computation engines: the NSGA-II pump-schedule optimizer       *)
(* (lib/algorithms/nsga2.ts) and the isolation-forest anomaly detector     *)
(* (lib/algorithms/isolation-forest.ts).                                   *)
(*                                                                         *)
(* Numbers.  The source computes in IEEE doubles; the model computes in    *)
(* exact integers over a fixed denominator:                                *)
(*   efficiency  is held in tenths of kWh/m3        (eff10)                *)
(*   production  is held in fifths of m3/h          (x5, so that 1.2*d is  *)
(*               the integer 6*d)                                          *)
(*   reservoir   levels are held in 1/50 percent    (x50)                  *)
(*   cosPhi      is held in hundredths              (x100)                 *)
(*   fitness     is held over FitnessDen(params) = 50 * HOURS * #pumps     *)
(* NaN (an arithmetic result on an undefined array entry), undefined and   *)
(* Infinity (the fitness of a candidate not yet evaluated) are the values  *)
(* NaN, Undefined and Infinity below.                                      *)
(***************************************************************************)
EXTENDS Integers, Sequences, FiniteSets, TLC

\* ------------------------------------------------------------------ bounds

\* Length of the planning horizon.  The source fixes it at 24; the model
\* scales it down so that every chromosome can be enumerated.
HOURS == 3
\* Largest value of constraints.maxActivePumps drawn for a run.
MaxActive == 1
\* Largest options.populationSize drawn for a run.
MaxPop == 2
\* Largest options.generations drawn for a run.
MaxGen == 2

\* ------------------------------------------------------- program constants

TOURNAMENT_SIZE == 3

\* Values that are not numbers are held as integers no computation of the
\* model reaches.  Infinity is above every fitness, so that x < Infinity
\* holds for every number x as in the source.
NaN == -2000000000
Undefined == -2000000001
Infinity == 2000000000

\* ----------------------------------------------------------- number helpers

IsNum(x) == x # NaN /\ x # Undefined

\* Math.round: round half up, floor(x + 1/2), of the rational n/d (d > 0).
MathRound(n, d) == (2 * n + d) \div (2 * d)

\* Math.min on two values either of which may be NaN.
MathMin(a, b) == IF IsNum(a) /\ IsNum(b) THEN (IF a < b THEN a ELSE b) ELSE NaN

\* Math.max on two numbers.
MathMax(a, b) == IF a > b THEN a ELSE b

\* a + b, a - b, a * b on values either of which may be NaN or undefined.
Plus(a, b) == IF IsNum(a) /\ IsNum(b) THEN a + b ELSE NaN
Minus(a, b) == IF IsNum(a) /\ IsNum(b) THEN a - b ELSE NaN
Times(a, b) == IF IsNum(a) /\ IsNum(b) THEN a * b ELSE NaN

\* a < b and a > b: false as soon as one side is NaN.
Less(a, b) == IsNum(a) /\ IsNum(b) /\ a < b
Greater(a, b) == IsNum(a) /\ IsNum(b) /\ a > b

\* arr[hour] for a 0-based hour: undefined past the end of the array.
At(arr, hour) == IF hour + 1 <= Len(arr) THEN arr[hour + 1] ELSE Undefined

RECURSIVE SumSeq(_)
SumSeq(s) == IF s = <<>> THEN 0 ELSE Head(s) + SumSeq(Tail(s))

\* ============================================================ nsga2.ts ====

VARIABLES
    params,        \* PumpScheduleParams of the call
    options,       \* Nsga2Options after defaulting: populationSize, generations, eliteCount
    population,    \* let population
    offspring,     \* const offspring of the current generation
    aliases,       \* for each offspring, the population index whose chromosome
                   \* array it shares (0: an array of its own)
    parent1,       \* const parent1 of the current pair
    parent2,       \* const parent2 of the current pair
    mutIndex,      \* the mutation loop's i (0-based)
    gen,           \* the evolution loop's gen
    pc,            \* position in optimizePumpSchedule
    result,        \* the OptimizedSchedule returned (Undefined until then)
    bestEvaluated  \* history: lowest fitness any evaluateIndividual call returned so far

optVars == <<params, options, population, offspring, aliases, parent1, parent2,
             mutIndex, gen, pc, result, bestEvaluated>>

\* State of one detectAnomalies call (isolation-forest.ts).
VARIABLES
    data,          \* the PumpDataPoint[] detectAnomalies is called with
    results,       \* the AnomalyResult[] it returned
    detPc,         \* "idle" before the call, "done" after it
    treesBuilt,    \* history: how many isolation trees the call built
    builtTree      \* <<the tree>> one buildTree call on the sample returned

detVars == <<data, results, detPc, treesBuilt, builtTree>>

\* State of one predictDemand call (demand forecaster).
VARIABLES
    fcParams,      \* the DemandPredictionParams, and the draws of Math.random()
    basePattern,   \* const basePattern
    prediction,    \* the DemandPrediction returned
    fcPc           \* position in predictDemand

fcVars == <<fcParams, basePattern, prediction, fcPc>>

\* State of one calculatePredictionAccuracy call.
VARIABLES
    predicted,     \* the argument predicted
    actual,        \* the argument actual
    accuracy,      \* the object returned
    elementsRead,  \* history: how many array elements the call read
    accPc          \* "idle" before the call, "done" after it

accVars == <<predicted, actual, accuracy, elementsRead, accPc>>

\* State of the store's sync queue (useAppStore and the IndexedDB behind it).
VARIABLES
    deviceOnline,     \* navigator.onLine: whether the device has network
    isOnline,         \* the store's isOnline
    syncStatus,       \* the store's syncStatus
    syncQueue,        \* the store's syncQueue
    pendingSyncCount, \* the store's pendingSyncCount
    dbQueue,          \* the object store 'syncQueue' of IndexedDB
    listening,        \* whether initialize has registered the online/offline listeners
    passPc,           \* position of the running syncData call
    passItems,        \* what is left of the running call's const queue
    addPc,            \* position of the running addToSyncQueue call
    created           \* how many items have been queued so far

syncVars == <<deviceOnline, isOnline, syncStatus, syncQueue, pendingSyncCount,
              dbQueue, listening, passPc, passItems, addPc, created>>

\* State of one generateParetoFront call (nsga2.ts).
VARIABLES
    frontParams,   \* the argument params
    points,        \* the argument points
    front,         \* const front
    frontPc        \* "idle", "loop" while the samples are generated, "done"

frontVars == <<frontParams, points, front, frontPc>>

\* State of one generateAnomalyTimeline call (isolation-forest.ts).
VARIABLES
    tlData,        \* the argument data
    windowSize,    \* the argument windowSize
    timeline,      \* const timeline
    tlIndex,       \* the loop's i
    tlPc           \* "idle", "loop", "done", or "threw" after a TypeError

timelineVars == <<tlData, windowSize, timeline, tlIndex, tlPc>>

\* The application shell: useAuth's state and localStorage entry, AppContent's
\* state, and the password logins AuthPage has submitted and not yet made.
VARIABLES
    user,              \* useAuth: the logged-in User, or "none" for null
    isLoading,         \* useAuth: the stored user is not loaded yet
    storedUser,        \* localStorage['onea_opt_user']: a User, "none", "corrupt"
    currentView,       \* AppContent: the selected view
    showLanding,       \* AppContent: the landing page is shown
    authPageLoading,   \* AuthPage: isLoading of the mounted AuthPage
    pendingLogins      \* emails of the handleSubmit calls waiting at line 713

appVars == <<user, isLoading, storedUser, currentView, showLanding, authPageLoading,
             pendingLogins>>

vars == <<optVars, detVars, fcVars, accVars, syncVars, frontVars,
         timelineVars, appVars>>

\* pumps.reduce((sum, p) => sum + p.efficiency, 0), in tenths of kWh/m3.
EfficiencySum(pumps) == SumSeq([i \in 1..Len(pumps) |-> pumps[i].efficiency])

\* The denominator the model holds a fitness over.
FitnessDen(p) == 50 * HOURS * Len(p.pumps)

\* One individual as initializePopulation builds it around a chromosome.
NewIndividual(chromosome) ==
    [chromosome |-> chromosome, fitness |-> Infinity, cost |-> 0,
     reservoirViolation |-> 0, cosPhi |-> 95]

\* Mutant of ActualProduction: the cap at 1.2 x demand is forgotten.
ActualProduction_Uncapped(productionCapacity, hourlyDemand) == productionCapacity

\* Line 156: Math.min(productionCapacity, hourlyDemand * 1.2), in fifths.
ActualProduction(productionCapacity, hourlyDemand) ==
    MathMin(productionCapacity, Times(6, hourlyDemand))

\* The hour loop of evaluateIndividual.  acc.cost is totalCost over
\* 50 * #pumps, acc.viol is reservoirViolation in 1/50 percent and acc.res is
\* currentReservoir in 1/50 percent.
RECURSIVE EvalHours(_, _, _, _)
EvalHours(chromosome, p, hour, acc) ==
    IF hour = HOURS THEN acc
    ELSE
      LET pumpsActive == At(chromosome, hour)
          hourlyDemand == At(p.demand, hour)
          hourlyTariff == At(p.tariffs, hour)
          productionCapacity == Times(Times(5, pumpsActive), p.pumps[1].maxFlow)
          actualProduction == ActualProduction(productionCapacity, hourlyDemand)
          energy == Times(actualProduction, EfficiencySum(p.pumps))
          hourlyCost == Times(energy, hourlyTariff)
          netFlow == Minus(actualProduction, Times(5, hourlyDemand))
          currentReservoir == Plus(acc.res, netFlow)
          lo == 50 * p.constraints.minReservoir
          hi == 50 * p.constraints.maxReservoir
          v1 == IF Less(currentReservoir, lo)
                THEN acc.viol + (lo - currentReservoir) ELSE acc.viol
          v2 == IF Greater(currentReservoir, hi)
                THEN v1 + (currentReservoir - hi) ELSE v1
      IN EvalHours(chromosome, p, hour + 1,
                   [cost |-> Plus(acc.cost, hourlyCost), viol |-> v2,
                    res |-> currentReservoir])

\* cosPhi = 0.85 + loadFactor * 0.15 over 100 * HOURS * #pumps.
CosPhiNum(chromosome, p) ==
    85 * HOURS * Len(p.pumps) + 15 * SumSeq(chromosome)

\* cosPhiPenalty over HOURS * #pumps (before the factor 100000 / 100).
CosPhiShortfall(chromosome, p) ==
    LET want == p.constraints.minCosPhi * HOURS * Len(p.pumps)
        have == CosPhiNum(chromosome, p)
    IN IF have < want THEN want - have ELSE 0

\* The fitness sum of evaluateIndividual over FitnessDen(p).
FitnessOf(chromosome, p, acc) ==
    LET n == Len(p.pumps)
    IN Plus(Times(acc.cost, HOURS),
            1000 * acc.viol * HOURS * n
              + 1000 * 50 * CosPhiShortfall(chromosome, p)
              + 10 * SumSeq(chromosome) * 50 * HOURS * n)

evaluateIndividual(individual, p) ==
    LET acc == EvalHours(individual.chromosome, p, 0,
                         [cost |-> 0, viol |-> 0, res |-> 50 * p.reservoirLevel])
    IN [chromosome |-> individual.chromosome,
        fitness |-> FitnessOf(individual.chromosome, p, acc),
        cost |-> IF IsNum(acc.cost)
                 THEN MathRound(acc.cost, 50 * Len(p.pumps)) ELSE NaN,
        reservoirViolation |-> acc.viol,
        cosPhi |-> MathRound(CosPhiNum(individual.chromosome, p),
                             HOURS * Len(p.pumps))]

\* tournamentSelection with its three random indices (0-based) drawn as
\* i1, i2, i3: a contender replaces best only on a strictly lower fitness.
tournamentSelection(pop, i1, i2, i3) ==
    LET b1 == pop[i1 + 1]
        b2 == IF Less(pop[i2 + 1].fitness, b1.fitness) THEN pop[i2 + 1] ELSE b1
        b3 == IF Less(pop[i3 + 1].fitness, b2.fitness) THEN pop[i3 + 1] ELSE b2
    IN b3

\* arr.slice(from, to) for 0-based from <= to.
Slice(arr, from, to) == SubSeq(arr, from + 1, to)

\* Mutant of CrossChild: the tail is cut one gene late.
CrossChild_DropsGene(head, tail, crossoverPoint) ==
    [chromosome |-> SubSeq(head.chromosome, 1, crossoverPoint)
                      \o SubSeq(tail.chromosome, crossoverPoint + 2,
                                Len(tail.chromosome)),
     fitness |-> Infinity, cost |-> 0, reservoirViolation |-> 0, cosPhi |-> 0]

\* One child of crossover: head.slice(0, point) followed by tail.slice(point).
CrossChild(head, tail, crossoverPoint) ==
    [chromosome |-> Slice(head.chromosome, 0, crossoverPoint)
                      \o Slice(tail.chromosome, crossoverPoint, Len(tail.chromosome)),
     fitness |-> Infinity, cost |-> 0, reservoirViolation |-> 0, cosPhi |-> 0]

crossover(p1, p2, crossoverPoint) ==
    <<CrossChild(p1, p2, crossoverPoint), CrossChild(p2, p1, crossoverPoint)>>

\* mutate: a copy of the individual with gene mutationPoint (0-based) set to
\* newGene = Math.floor(Math.random() * (maxPumps + 1)).
mutate(individual, mutationPoint, newGene) ==
    [individual EXCEPT !.chromosome[mutationPoint + 1] = newGene]

\* Mutant of ArraysAfterMutate: the gene is written into the individual's
\* own chromosome array, which a clone shares with its parent.
ArraysAfterMutate_InPlace(pop, alias, mutationPoint, newGene) ==
    IF alias = 0 THEN pop
    ELSE [pop EXCEPT ![alias].chromosome[mutationPoint + 1] = newGene]

\* The population's chromosome arrays after mutate ran on an offspring that
\* shares the array of pop[alias]: line 250 writes into a copy.
ArraysAfterMutate(pop, alias, mutationPoint, newGene) == pop

\* The comparator (a, b) => a.fitness - b.fitness as Array.prototype.sort
\* reads it: a NaN difference counts as 0.
CompareFitness(a, b) ==
    IF IsNum(a.fitness) /\ IsNum(b.fitness) THEN a.fitness - b.fitness ELSE 0

\* Array.prototype.sort is stable: x goes behind every element that does not
\* compare greater than it.
RECURSIVE InsertSorted(_, _)
InsertSorted(sorted, x) ==
    IF sorted = <<>> THEN <<x>>
    ELSE LET last == sorted[Len(sorted)]
         IN IF CompareFitness(last, x) > 0
            THEN Append(InsertSorted(SubSeq(sorted, 1, Len(sorted) - 1), x), last)
            ELSE Append(sorted, x)

RECURSIVE SortByFitness(_)
SortByFitness(arr) ==
    IF arr = <<>> THEN <<>>
    ELSE InsertSorted(SortByFitness(SubSeq(arr, 1, Len(arr) - 1)), arr[Len(arr)])

\* Mutant of SelectSurvivors: the parents are left out of the merge.
SelectSurvivors_OffspringOnly(pop, evaluatedOffspring, populationSize) ==
    SubSeq(SortByFitness(evaluatedOffspring), 1, populationSize)

\* Lines 105-108: parents and evaluated offspring together, sorted ascending
\* by fitness, cut to the population size.
SelectSurvivors(pop, evaluatedOffspring, populationSize) ==
    Slice(SortByFitness(pop \o evaluatedOffspring), 0, populationSize)

\* Line 112: const best = population[0].
BestOf(pop) == pop[1]

\* calculateUniformCost: the rounded sum of demand x avg efficiency x tariff.
RECURSIVE UniformHours(_, _, _)
UniformHours(p, hour, totalCost) ==
    IF hour = HOURS THEN totalCost
    ELSE LET energy == Times(Times(5, At(p.demand, hour)), EfficiencySum(p.pumps))
         IN UniformHours(p, hour + 1,
                         Plus(totalCost, Times(energy, At(p.tariffs, hour))))

\* Mutant of calculateUniformCost: the first pump's efficiency stands for
\* the average.
calculateUniformCost_FirstPump(p) ==
    LET firstOnly == [p EXCEPT !.pumps = [i \in 1..Len(p.pumps) |-> p.pumps[1]]]
        totalCost == UniformHours(firstOnly, 0, 0)
    IN IF IsNum(totalCost) THEN MathRound(totalCost, 50 * Len(p.pumps)) ELSE NaN

calculateUniformCost(p) ==
    LET totalCost == UniformHours(p, 0, 0)
    IN IF IsNum(totalCost) THEN MathRound(totalCost, 50 * Len(p.pumps)) ELSE NaN

\* Math.max(0, Math.min(100, level)) on a level in 1/50 percent; both
\* return NaN on a NaN level.
ClampLevel(level) ==
    IF IsNum(level) THEN MathMax(0, MathMin(100 * 50, level)) ELSE NaN

\* simulateReservoir: the start level, then one clamped level per hour.
RECURSIVE SimulateHours(_, _, _, _, _)
SimulateHours(planning, p, hour, currentLevel, levels) ==
    IF hour = HOURS THEN levels
    ELSE LET production == Times(Times(5, At(planning, hour)), p.pumps[1].maxFlow)
             netFlow == Minus(production, Times(5, At(p.demand, hour)))
             next == Plus(currentLevel, netFlow)
         IN SimulateHours(planning, p, hour + 1, next,
                          Append(levels, ClampLevel(next)))

simulateReservoir(planning, p) ==
    SimulateHours(planning, p, 0, 50 * p.reservoirLevel, <<50 * p.reservoirLevel>>)

\* The lowest fitness among the individuals of arr and seen (a fitness or
\* Infinity); a NaN fitness never compares lower.
RECURSIVE LowestFitness(_, _)
LowestFitness(arr, seen) ==
    IF arr = <<>> THEN seen
    ELSE LowestFitness(Tail(arr),
                       IF Less(Head(arr).fitness, seen)
                       THEN Head(arr).fitness ELSE seen)

\* ------------------------------------------------- inputs of a run

\* Shapes of the input arrays: the 24-hour arrays of a valid call, or one
\* array one entry short or long, or an empty pump list.
Shapes == {"valid", "shortDemand", "longDemand", "shortTariffs", "longTariffs",
           "emptyPumps"}

DemandOf(len) == [h \in 1..len |-> IF h % 2 = 1 THEN 100 ELSE 60]
TariffsOf(len) == [h \in 1..len |-> IF h % 2 = 1 THEN 50 ELSE 150]
PumpList == <<[efficiency |-> 4, maxFlow |-> 70], [efficiency |-> 5, maxFlow |-> 70]>>

ParamsOf(shape, nPumps, maxActivePumps) ==
    [demand |-> DemandOf(CASE shape = "shortDemand" -> HOURS - 1
                           [] shape = "longDemand" -> HOURS + 1
                           [] OTHER -> HOURS),
     tariffs |-> TariffsOf(CASE shape = "shortTariffs" -> HOURS - 1
                             [] shape = "longTariffs" -> HOURS + 1
                             [] OTHER -> HOURS),
     reservoirLevel |-> 30,
     pumps |-> IF shape = "emptyPumps" THEN <<>> ELSE SubSeq(PumpList, 1, nPumps),
     constraints |-> [minReservoir |-> 20, maxReservoir |-> 90, minCosPhi |-> 90,
                      maxActivePumps |-> maxActivePumps]]

\* The call's inputs are valid: 24-entry demand and tariffs, a pump list
\* that is not empty, maxActivePumps >= 1.
ValidInput(p) ==
    /\ Len(p.demand) = HOURS
    /\ Len(p.tariffs) = HOURS
    /\ Len(p.pumps) >= 1
    /\ p.constraints.maxActivePumps >= 1

NoIndividual == NewIndividual(<<>>)
NoResult == [planning |-> <<>>, cost |-> 0, savings |-> 0, cosPhi |-> 0,
             reservoirLevels |-> <<>>, fitness |-> 0]

OptInit ==
    /\ \E shape \in Shapes, nPumps \in 1..2, m \in 1..MaxActive :
         /\ (shape # "valid" => nPumps = 1)
         /\ params = ParamsOf(shape, nPumps, m)
    /\ \E ps \in 1..MaxPop, g \in 0..MaxGen, e \in 0..1 :
         options = [populationSize |-> ps, generations |-> g, eliteCount |-> e]
    /\ population = <<>>
    /\ offspring = <<>>
    /\ aliases = <<>>
    /\ parent1 = NoIndividual
    /\ parent2 = NoIndividual
    /\ mutIndex = 0
    /\ gen = 0
    /\ pc = "start"
    /\ result = NoResult
    /\ bestEvaluated = Infinity

\* ------------------------------------------------- optimizePumpSchedule

Chromosomes(maxPumps) == [1..HOURS -> 0..maxPumps]

\* initializePopulation with the genes Math.random() drew.
initializePopulation(size, genes) == [i \in 1..size |-> NewIndividual(genes[i])]

EvaluateAll(arr, p) == [i \in 1..Len(arr) |-> evaluateIndividual(arr[i], p)]

\* Lines 70-73: the initial population, evaluated.  pumps[0].maxFlow of an
\* empty pump list is a TypeError thrown out of the call.
Initialize ==
    /\ pc = "start"
    /\ Len(params.pumps) >= 1
    /\ \E genes \in [1..options.populationSize
                       -> Chromosomes(params.constraints.maxActivePumps)] :
         LET evaluated == EvaluateAll(
                 initializePopulation(options.populationSize, genes), params)
         IN /\ population' = evaluated
            /\ bestEvaluated' = LowestFitness(evaluated, bestEvaluated)
    /\ gen' = 0
    /\ pc' = IF 0 < options.generations THEN "select1" ELSE "return"
    /\ UNCHANGED <<detVars, fcVars, accVars, syncVars, params, options, offspring, aliases, parent1, parent2, mutIndex, result, frontVars, timelineVars, appVars>>

InitializeThrows ==
    /\ pc = "start"
    /\ Len(params.pumps) = 0
    /\ pc' = "threw"
    /\ UNCHANGED <<detVars, fcVars, accVars, syncVars, params, options, population, offspring, aliases, parent1, parent2,
                   mutIndex, gen, result, bestEvaluated, frontVars, timelineVars, appVars>>

RandomIndex(arr) == 0..(Len(arr) - 1)

\* Line 82.
SelectParent1 ==
    /\ pc = "select1"
    /\ \E i1 \in RandomIndex(population), i2 \in RandomIndex(population),
          i3 \in RandomIndex(population) :
         parent1' = tournamentSelection(population, i1, i2, i3)
    /\ pc' = "select2"
    /\ UNCHANGED <<detVars, fcVars, accVars, syncVars, params, options, population, offspring, aliases, parent2, mutIndex,
                   gen, result, bestEvaluated, frontVars, timelineVars, appVars>>

\* Line 83.
SelectParent2 ==
    /\ pc = "select2"
    /\ \E i1 \in RandomIndex(population), i2 \in RandomIndex(population),
          i3 \in RandomIndex(population) :
         parent2' = tournamentSelection(population, i1, i2, i3)
    /\ pc' = "cross"
    /\ UNCHANGED <<detVars, fcVars, accVars, syncVars, params, options, population, offspring, aliases, parent1, mutIndex,
                   gen, result, bestEvaluated, frontVars, timelineVars, appVars>>

\* The place in pop of the individual a tournament returned (the first of
\* its equals): { ...parent } of line 90 shares its chromosome array.
IndexIn(pop, individual) ==
    CHOOSE i \in 1..Len(pop) :
        /\ pop[i] = individual
        /\ \A j \in 1..(i - 1) : pop[j] # individual

\* The while test of line 80 after a pair was pushed, then line 95's i.
AfterPush(pushed, shared) ==
    /\ offspring' = pushed
    /\ aliases' = aliases \o shared
    /\ IF Len(pushed) < options.populationSize
       THEN pc' = "select1" /\ mutIndex' = mutIndex
       ELSE pc' = "mutate" /\ mutIndex' = options.eliteCount

\* Lines 86-88: Math.random() < crossoverRate.
Crossover ==
    /\ pc = "cross"
    /\ \E crossoverPoint \in 0..(HOURS - 1) :
         AfterPush(offspring \o crossover(parent1, parent2, crossoverPoint), <<0, 0>>)
    /\ UNCHANGED <<detVars, fcVars, accVars, syncVars, params, options, population, parent1, parent2, gen, result,
                   bestEvaluated, frontVars, timelineVars, appVars>>

\* Lines 89-91: the parents are pushed as shallow copies.
Clone ==
    /\ pc = "cross"
    /\ AfterPush(offspring \o <<parent1, parent2>>,
                 <<IndexIn(population, parent1), IndexIn(population, parent2)>>)
    /\ UNCHANGED <<detVars, fcVars, accVars, syncVars, params, options, population, parent1, parent2, gen, result,
                   bestEvaluated, frontVars, timelineVars, appVars>>

\* Lines 95-98 for one i: Math.random() < mutationRate.
Mutate ==
    /\ pc = "mutate"
    /\ mutIndex < Len(offspring)
    /\ \E mutationPoint \in 0..(HOURS - 1),
          newGene \in 0..params.constraints.maxActivePumps :
         /\ offspring' = [offspring EXCEPT
                            ![mutIndex + 1] = mutate(@, mutationPoint, newGene)]
         /\ population' = ArraysAfterMutate(population, aliases[mutIndex + 1],
                                            mutationPoint, newGene)
    /\ aliases' = [aliases EXCEPT ![mutIndex + 1] = 0]
    /\ mutIndex' = mutIndex + 1
    /\ UNCHANGED <<detVars, fcVars, accVars, syncVars, params, options, parent1, parent2, gen, pc,
                   result, bestEvaluated, frontVars, timelineVars, appVars>>

\* Lines 95-98 for one i: the draw is not below mutationRate.
NoMutation ==
    /\ pc = "mutate"
    /\ mutIndex < Len(offspring)
    /\ mutIndex' = mutIndex + 1
    /\ UNCHANGED <<detVars, fcVars, accVars, syncVars, params, options, population, offspring, aliases, parent1, parent2,
                   gen, pc, result, bestEvaluated, frontVars, timelineVars, appVars>>

\* Lines 102-108 and the loop test of line 76.
NextGeneration ==
    /\ pc = "mutate"
    /\ mutIndex >= Len(offspring)
    /\ LET evaluatedOffspring == EvaluateAll(offspring, params)
       IN /\ population' = SelectSurvivors(population, evaluatedOffspring,
                                          options.populationSize)
          /\ bestEvaluated' = LowestFitness(evaluatedOffspring, bestEvaluated)
    /\ offspring' = <<>>
    /\ aliases' = <<>>
    /\ gen' = gen + 1
    /\ pc' = IF gen + 1 < options.generations THEN "select1" ELSE "return"
    /\ UNCHANGED <<detVars, fcVars, accVars, syncVars, params, options, parent1, parent2, mutIndex, result, frontVars, timelineVars, appVars>>

\* Lines 112-122.
Return ==
    /\ pc = "return"
    /\ LET best == BestOf(population)
           uniformCost == calculateUniformCost(params)
       IN result' = [planning |-> best.chromosome,
                     cost |-> best.cost,
                     savings |-> Minus(uniformCost, best.cost),
                     cosPhi |-> best.cosPhi,
                     reservoirLevels |-> simulateReservoir(best.chromosome, params),
                     fitness |-> best.fitness]
    /\ pc' = "done"
    /\ UNCHANGED <<detVars, fcVars, accVars, syncVars, params, options, population, offspring, aliases, parent1, parent2,
                   mutIndex, gen, bestEvaluated, frontVars, timelineVars, appVars>>

OptNext ==
    \/ Initialize
    \/ InitializeThrows
    \/ SelectParent1
    \/ SelectParent2
    \/ Crossover
    \/ Clone
    \/ Mutate
    \/ NoMutation
    \/ NextGeneration
    \/ Return

\* ------------------------------------------- evaluation of one candidate

\* A call whose tariff is the same at every hour and whose demand is the
\* same at every hour.
UniformParams(hourlyDemand, hourlyTariff, maxFlow, level, minCosPhi, nPumps, maxPumps) ==
    [demand |-> [h \in 1..HOURS |-> hourlyDemand],
     tariffs |-> [h \in 1..HOURS |-> hourlyTariff],
     reservoirLevel |-> level,
     pumps |-> [i \in 1..nPumps |-> [efficiency |-> 3 + i, maxFlow |-> maxFlow]],
     constraints |-> [minReservoir |-> 20, maxReservoir |-> 90,
                      minCosPhi |-> minCosPhi, maxActivePumps |-> maxPumps]]

EvalInit ==
    /\ \E hourlyDemand \in {50, 100}, hourlyTariff \in {50, 150},
          maxFlow \in {60, 70, 130}, level \in {20, 50},
          minCosPhi \in {85, 90, 95}, nPumps \in 1..2, m \in 1..MaxActive :
         params = UniformParams(hourlyDemand, hourlyTariff, maxFlow, level,
                                minCosPhi, nPumps, m)
    /\ options = [populationSize |-> 1, generations |-> 0, eliteCount |-> 0]
    /\ population = <<>>
    /\ offspring = <<>>
    /\ aliases = <<>>
    /\ parent1 = NoIndividual
    /\ parent2 = NoIndividual
    /\ mutIndex = 0
    /\ gen = 0
    /\ pc = "candidate"
    /\ result = NoResult
    /\ bestEvaluated = Infinity

\* evaluateIndividual applied to one candidate schedule.
EvaluateCandidate ==
    /\ pc = "candidate"
    /\ \E c \in Chromosomes(params.constraints.maxActivePumps) :
         population' = <<evaluateIndividual(NewIndividual(c), params)>>
    /\ pc' = "evaluated"
    /\ UNCHANGED <<detVars, fcVars, accVars, syncVars, params, options, offspring, aliases, parent1, parent2, mutIndex, gen,
                   result, bestEvaluated, frontVars, timelineVars, appVars>>

EvalNext == EvaluateCandidate

\* ================================================ isolation-forest.ts ====
\* Path lengths and the statistical score are held in millionths, the
\* combined score in ten-millionths (6 * structural + 4 * statistical, the
\* source's 0.6 and 0.4), z-scores in ten-thousandths.  A split value is
\* held doubled, so that a value halfway between two readings is an integer.

\* Largest batch drawn for a call.
MaxReadings == 12
\* nEstimators: trees per forest (N_ESTIMATORS is 50 in the source).
NumTrees == 1

MAX_SAMPLES == 256
\* ANOMALY_THRESHOLD = 0.15, in ten-millionths.
ANOMALY_THRESHOLD == 1500000
\* The batch size below which detectAnomalies does not score (line 37).
MinBatch == 10

Features == {"kwhM3", "debit", "reservoir"}

\* Math.ceil(Math.log2(n)) for n >= 1.
RECURSIVE CeilLog2From(_, _, _)
CeilLog2From(n, k, pow) == IF pow >= n THEN k ELSE CeilLog2From(n, k + 1, 2 * pow)
CeilLog2(n) == CeilLog2From(n, 0, 1)

\* Math.floor(Math.sqrt(n)) for n >= 0, by bisection on [lo, hi].
RECURSIVE SqrtBetween(_, _, _)
SqrtBetween(n, lo, hi) ==
    IF lo >= hi THEN lo
    ELSE LET mid == (lo + hi + 1) \div 2
         IN IF mid * mid <= n THEN SqrtBetween(n, mid, hi)
            ELSE SqrtBetween(n, lo, mid - 1)
FloorSqrt(n) == SqrtBetween(n, 0, 46340)

\* floor(a * 10^8 / b) for 0 <= a, 0 < b, without leaving 32 bits.
ScaledQuotient(a, b) ==
    LET r1 == (a % b) * 10000
        r2 == (r1 % b) * 10000
    IN (a \div b) * 100000000 + (r1 \div b) * 10000 + (r2 \div b)

\* calculateStats over the values of one feature: mean = sum / n and
\* std = sqrt(varNum / n^3) with varNum = sum over v of (n * v - sum)^2.
calculateStats(values) ==
    LET n == Len(values)
        sum == SumSeq(values)
    IN [sum |-> sum, n |-> n,
        varNum |-> SumSeq([i \in 1..n |-> (n * values[i] - sum) * (n * values[i] - sum)])]

calculateBaseline(d) ==
    [kwhM3 |-> calculateStats([i \in 1..Len(d) |-> d[i].kwhM3]),
     debit |-> calculateStats([i \in 1..Len(d) |-> d[i].debit]),
     reservoir |-> calculateStats([i \in 1..Len(d) |-> d[i].reservoir])]

\* Math.abs(x - mean) / std in ten-thousandths: 0 / 0 is NaN and a nonzero
\* value over 0 is Infinity.
AbsZScore(x, st) ==
    LET dev == IF st.n * x >= st.sum THEN st.n * x - st.sum ELSE st.sum - st.n * x
    IN IF st.varNum = 0
       THEN (IF dev = 0 THEN NaN ELSE Infinity)
       ELSE FloorSqrt(ScaledQuotient(st.n * dev * dev, st.varNum))

\* (x - mean) / std > num / den for num, den > 0, decided exactly.
ZAbove(x, st, num, den) ==
    LET dev == st.n * x - st.sum
    IN /\ dev > 0
       /\ \/ st.varNum = 0
          \/ st.n * dev * dev * den * den > num * num * st.varNum

\* (x - mean) / std < num / den for num, den > 0, decided exactly.
ZBelow(x, st, num, den) ==
    LET dev == st.n * x - st.sum
    IN /\ ~(st.varNum = 0 /\ dev >= 0)
       /\ \/ dev <= 0
          \/ st.n * dev * dev * den * den < num * num * st.varNum

\* calculateExpectedPath(size) in millionths:
\* 2 * (ln(size - 1) + 0.5772156649) - 2 * (size - 1) / size for size > 1.
ExpectedPathTable ==
    <<0, 154431, 1207392, 1851656, 2327020, 2706640, 3023665, 3296252, 3535537,
      3748880, 3941420, 4116889, 4278091, 4427187, 4565879, 4695532, 4817256,
      4931969, 5040438, 5143309>>
calculateExpectedPath(size) == IF size <= 1 THEN 0 ELSE ExpectedPathTable[size]

\* ------------------------------------------------------------ buildTree

LeafNode(size) ==
    [isLeaf |-> TRUE, size |-> size, splitFeature |-> "", splitValue |-> 0,
     left |-> <<>>, right |-> <<>>]

SplitNode(splitFeature, splitValue, left, right) ==
    [isLeaf |-> FALSE, size |-> 0, splitFeature |-> splitFeature,
     splitValue |-> splitValue, left |-> <<left>>, right |-> <<right>>]

FeatureValues(sample, f) == {sample[i][f] : i \in 1..Len(sample)}

SetMin(S) == CHOOSE x \in S : \A y \in S : x <= y

\* The split values min + Math.random() * (max - min) can take, doubled, up
\* to what no reading can tell apart: min itself, and one value between
\* each two neighbouring values of the feature.
SplitValues(values) ==
    {2 * SetMin(values)}
      \cup {a + b : <<a, b>> \in {w \in values \X values :
                      /\ w[1] < w[2]
                      /\ ~\E c \in values : w[1] < c /\ c < w[2]}}

\* Mutant of buildTree: the right child takes the readings above the split
\* value only.
RECURSIVE buildTree_DropsEqual(_, _, _)
buildTree_DropsEqual(sample, currentHeight, maxHeight) ==
    IF Len(sample) <= 1 \/ currentHeight >= maxHeight
    THEN {LeafNode(Len(sample))}
    ELSE UNION {
           UNION {
             LET left == SelectSeq(sample, LAMBDA d : 2 * d[f] < s)
                 right == SelectSeq(sample, LAMBDA d : 2 * d[f] > s)
             IN {SplitNode(f, s, l, r) :
                   l \in buildTree_DropsEqual(left, currentHeight + 1, maxHeight),
                   r \in buildTree_DropsEqual(right, currentHeight + 1, maxHeight)}
             : s \in SplitValues(FeatureValues(sample, f))}
           : f \in Features}

\* Every tree buildTree can return for the sample.
RECURSIVE buildTree(_, _, _)
buildTree(sample, currentHeight, maxHeight) ==
    IF Len(sample) <= 1 \/ currentHeight >= maxHeight
    THEN {LeafNode(Len(sample))}
    ELSE UNION {
           UNION {
             LET left == SelectSeq(sample, LAMBDA d : 2 * d[f] < s)
                 right == SelectSeq(sample, LAMBDA d : 2 * d[f] >= s)
             IN {SplitNode(f, s, l, r) :
                   l \in buildTree(left, currentHeight + 1, maxHeight),
                   r \in buildTree(right, currentHeight + 1, maxHeight)}
             : s \in SplitValues(FeatureValues(sample, f))}
           : f \in Features}

\* The trees one iteration of buildIsolationForest can build: the sample is
\* the first min(MAX_SAMPLES, n) readings.
ForestTrees(d) ==
    LET sampleSize == IF MAX_SAMPLES < Len(d) THEN MAX_SAMPLES ELSE Len(d)
    IN buildTree(SubSeq(d, 1, sampleSize), 0, CeilLog2(sampleSize))

RECURSIVE getPathLength(_, _, _)
getPathLength(point, tree, currentLength) ==
    IF tree.isLeaf
    THEN currentLength + calculateExpectedPath(tree.size)
    ELSE IF 2 * point[tree.splitFeature] < tree.splitValue
         THEN getPathLength(point, tree.left[1], currentLength + 1000000)
         ELSE getPathLength(point, tree.right[1], currentLength + 1000000)

\* What calculateAnomalyScore reads of a tree: the path length of each
\* reading of the batch.
PathLengths(d, tree) == [i \in 1..Len(d) |-> getPathLength(d[i], tree, 0)]

\* calculateAnomalyScore, in ten-millionths, from the path lengths of the
\* point in each tree.
calculateAnomalyScore(point, pathLengths, baseline) ==
    LET totalPathLength == SumSeq(pathLengths)
        avgPathLength == totalPathLength \div Len(pathLengths)
        maxPath == CeilLog2(MAX_SAMPLES)
        normalizedScore == 1000000 - (avgPathLength \div maxPath)
        kwhM3ZScore == AbsZScore(point.kwhM3, baseline.kwhM3)
        statisticalScore == IF kwhM3ZScore = NaN THEN NaN
                            ELSE IF kwhM3ZScore = Infinity THEN 1000000
                            ELSE MathMin(1000000, (100 * kwhM3ZScore) \div 3)
    IN Plus(6 * normalizedScore, Times(4, statisticalScore))

\* Mutant of determineProbableCause: the wear rule does not look at the flow.
determineProbableCause_WearIgnoresFlow(point, baseline) ==
    LET causes ==
          (IF ZAbove(point.kwhM3, baseline.kwhM3, 2, 1)
           THEN <<"Surconsommation energetique">> ELSE <<>>)
          \o (IF /\ ZAbove(point.debit, baseline.debit, 3, 2)
                 /\ baseline.reservoir.n * point.reservoir < baseline.reservoir.sum
              THEN <<"Fuite probable detectee">> ELSE <<>>)
          \o (IF ZAbove(point.kwhM3, baseline.kwhM3, 3, 2)
              THEN <<"Usure pompe ou encrassement">> ELSE <<>>)
          \o (IF point.reservoir < 30
              THEN <<"Niveau reservoir critique">> ELSE <<>>)
    IN IF Len(causes) > 0 THEN causes ELSE <<"Anomalie non identifiee">>

\* Lines 215-241; the causes joined with ' + ' are kept as their sequence.
determineProbableCause(point, baseline) ==
    LET causes ==
          (IF ZAbove(point.kwhM3, baseline.kwhM3, 2, 1)
           THEN <<"Surconsommation energetique">> ELSE <<>>)
          \o (IF /\ ZAbove(point.debit, baseline.debit, 3, 2)
                 /\ baseline.reservoir.n * point.reservoir < baseline.reservoir.sum
              THEN <<"Fuite probable detectee">> ELSE <<>>)
          \o (IF /\ ZAbove(point.kwhM3, baseline.kwhM3, 3, 2)
                 /\ ZBelow(point.debit, baseline.debit, 1, 2)
              THEN <<"Usure pompe ou encrassement">> ELSE <<>>)
          \o (IF point.reservoir < 30
              THEN <<"Niveau reservoir critique">> ELSE <<>>)
    IN IF Len(causes) > 0 THEN causes ELSE <<"Anomalie non identifiee">>

\* Math.round(z * 100) / 100, in hundredths.
RoundDeviation(z) ==
    IF z = NaN THEN NaN ELSE IF z = Infinity THEN Infinity ELSE MathRound(z, 100)

calculateFeatureDeviations(point, baseline) ==
    LET kwhM3Deviation == AbsZScore(point.kwhM3, baseline.kwhM3)
        debitDeviation == AbsZScore(point.debit, baseline.debit)
    IN [kwhM3Deviation |-> RoundDeviation(kwhM3Deviation),
        debitDeviation |-> RoundDeviation(debitDeviation),
        combinedScore |->
            IF kwhM3Deviation = NaN \/ debitDeviation = NaN THEN NaN
            ELSE IF kwhM3Deviation = Infinity \/ debitDeviation = Infinity
                 THEN Infinity
                 ELSE MathRound(kwhM3Deviation + debitDeviation, 200)]

\* Mutant of InsufficientData: the fallback starts below 5 readings.
InsufficientData_Five(d) == Len(d) < 5

\* Line 37.
InsufficientData(d) == Len(d) < MinBatch

\* Lines 38-45: one result of the fallback.
FallbackResult(point) ==
    [timestamp |-> point.timestamp, score |-> 0, isAnomaly |-> FALSE,
     probableCause |-> <<"Insufficient data">>, confidence |-> 0,
     features |-> [kwhM3Deviation |-> 0, debitDeviation |-> 0, combinedScore |-> 0]]

\* Line 57.
IsAnomaly(score) == Greater(score, ANOMALY_THRESHOLD)

\* Mutant of ScoredResult: the result does not carry its reading's timestamp.
ScoredResult_Unstamped(point, pathLengths, baseline) ==
    [FallbackResult(point) EXCEPT !.timestamp = 0]

\* Lines 55-67: one result; score is reported in thousandths
\* (Math.round(score * 1000) / 1000), confidence in ten-millionths.
ScoredResult(point, pathLengths, baseline) ==
    LET score == calculateAnomalyScore(point, pathLengths, baseline)
        isAnomaly == IsAnomaly(score)
    IN [timestamp |-> point.timestamp,
        score |-> IF IsNum(score) THEN MathRound(score, 10000) ELSE NaN,
        isAnomaly |-> isAnomaly,
        probableCause |-> IF isAnomaly THEN determineProbableCause(point, baseline)
                          ELSE <<"Normal">>,
        confidence |-> MathMin(10000000, Times(5, score)),
        features |-> calculateFeatureDeviations(point, baseline)]

\* ------------------------------------------------- inputs of a call

\* The readings batches are made of: a low, a usual and a high
\* energy-per-volume reading; the high one also differs in flow.
LowReading == [kwhM3 |-> 1, debit |-> 5, reservoir |-> 50]
UsualReading == [kwhM3 |-> 2, debit |-> 5, reservoir |-> 50]
HighReading == [kwhM3 |-> 5, debit |-> 6, reservoir |-> 50]
LowCounts == 0..3
HighCounts == 0..2

\* nLow low readings, then the usual ones, then nHigh high ones, stamped
\* 1..n in order.
BatchOf(n, nLow, nHigh) ==
    [i \in 1..n |->
       LET r == IF i <= nLow THEN LowReading
                ELSE IF i <= n - nHigh THEN UsualReading ELSE HighReading
       IN [timestamp |-> i, kwhM3 |-> r.kwhM3, debit |-> r.debit,
           reservoir |-> r.reservoir]]

DetInit ==
    /\ \E n \in 0..MaxReadings, nLow \in LowCounts, nHigh \in HighCounts :
         /\ nLow + nHigh <= n
         /\ data = BatchOf(n, nLow, nHigh)
    /\ results = <<>>
    /\ detPc = "idle"
    /\ treesBuilt = 0
    /\ builtTree = <<>>

\* detectAnomalies, lines 36-70.
DetectAnomalies ==
    /\ detPc = "idle"
    /\ IF InsufficientData(data)
       THEN /\ results' = [i \in 1..Len(data) |-> FallbackResult(data[i])]
            /\ treesBuilt' = 0
       ELSE LET baseline == calculateBaseline(data)
            IN \E paths \in [1..NumTrees -> {PathLengths(data, t) : t \in ForestTrees(data)}] :
                 /\ results' = [i \in 1..Len(data) |->
                                  ScoredResult(data[i],
                                               [t \in 1..NumTrees |-> paths[t][i]],
                                               baseline)]
                 /\ treesBuilt' = NumTrees
    /\ detPc' = "done"
    /\ UNCHANGED <<data, builtTree, optVars, fcVars, accVars, syncVars, frontVars, timelineVars, appVars>>

DetNext == DetectAnomalies

\* ------------------------------------------------ generateAnomalyTimeline

\* Every array detectAnomalies can return for the batch d, over the trees
\* buildIsolationForest can build.
detectAnomalies(d) ==
    IF InsufficientData(d)
    THEN {[i \in 1..Len(d) |-> FallbackResult(d[i])]}
    ELSE LET baseline == calculateBaseline(d)
             choices == {PathLengths(d, t) : t \in ForestTrees(d)}
         IN {[i \in 1..Len(d) |->
                ScoredResult(d[i], [t \in 1..NumTrees |-> paths[t][i]], baseline)]
               : paths \in [1..NumTrees -> choices]}

\* The window sizes of a call: none, one, the default (line 277), the
\* largest below MinBatch and MinBatch itself.
DEFAULT_WINDOW == 7
WindowSizes == {0, 1, DEFAULT_WINDOW, MinBatch - 1, MinBatch}

TimelineInit ==
    /\ \E n \in {0, 3, MinBatch + 1, MinBatch + 2}, nLow \in 0..1, nHigh \in 0..1 :
         /\ nLow + nHigh <= n
         /\ tlData = BatchOf(n, nLow, nHigh)
    /\ windowSize \in WindowSizes
    /\ timeline = <<>>
    /\ tlIndex = windowSize
    /\ tlPc = "loop"

\* data.slice(i - windowSize, i)
Window(d, i, size) == SubSeq(d, i - size + 1, i)

\* Lines 281-291, one iteration: results[results.length - 1] of an empty
\* array is undefined, and reading its score is a TypeError.
TimelineStep ==
    /\ tlPc = "loop"
    /\ tlIndex < Len(tlData)
    /\ \E res \in detectAnomalies(Window(tlData, tlIndex, windowSize)) :
         IF Len(res) = 0
         THEN /\ tlPc' = "threw"
              /\ UNCHANGED <<timeline, tlIndex>>
         ELSE /\ timeline' = Append(timeline,
                                    [timestamp |-> tlData[tlIndex + 1].timestamp,
                                     score |-> res[Len(res)].score,
                                     threshold |-> ANOMALY_THRESHOLD])
              /\ tlIndex' = tlIndex + 1
              /\ tlPc' = tlPc
    /\ UNCHANGED <<tlData, windowSize, optVars, detVars, fcVars, accVars, syncVars, frontVars, appVars>>

\* Line 293.
TimelineReturn ==
    /\ tlPc = "loop"
    /\ tlIndex >= Len(tlData)
    /\ tlPc' = "done"
    /\ UNCHANGED <<tlData, windowSize, timeline, tlIndex, optVars, detVars, fcVars, accVars, syncVars, frontVars, appVars>>

TimelineNext == TimelineStep \/ TimelineReturn

\* generateAnomalyTimeline is not called.
TimelineIdle ==
    /\ tlData = <<>>
    /\ windowSize = DEFAULT_WINDOW
    /\ timeline = <<>>
    /\ tlIndex = 0
    /\ tlPc = "idle"

\* Batches for the causes of an anomaly: MinBatch readings, the usual ones
\* first, then one to three readings that are off in energy, flow or
\* reservoir level.
OffReadings ==
    <<[kwhM3 |-> 5, debit |-> 5, reservoir |-> 50],
      [kwhM3 |-> 2, debit |-> 9, reservoir |-> 40],
      [kwhM3 |-> 2, debit |-> 5, reservoir |-> 20],
      [kwhM3 |-> 1, debit |-> 5, reservoir |-> 50],
      [kwhM3 |-> 5, debit |-> 9, reservoir |-> 20],
      [kwhM3 |-> 5, debit |-> 4, reservoir |-> 50]>>

\* The batch that ends with the readings OffReadings[kinds[1]], ...
CauseBatch(kinds) ==
    [i \in 1..MinBatch |->
       LET r == IF i <= MinBatch - Len(kinds) THEN UsualReading
                ELSE OffReadings[kinds[i - (MinBatch - Len(kinds))]]
       IN [timestamp |-> i, kwhM3 |-> r.kwhM3, debit |-> r.debit,
           reservoir |-> r.reservoir]]

CauseInit ==
    /\ \E a \in 1..Len(OffReadings), b \in 1..Len(OffReadings) :
         /\ a <= b
         /\ data \in {CauseBatch(<<a>>), CauseBatch(<<a, b>>), CauseBatch(<<a, a, a>>)}
    /\ results = <<>>
    /\ detPc = "idle"
    /\ treesBuilt = 0
    /\ builtTree = <<>>

\* ------------------------------------------------- generateParetoFront

\* How many samples a call asks for at most.
MaxPoints == 2

\* The tariff below which an hour is off-peak (line 330).
LOW_TARIFF == 100

\* Mutant of generateScheduleWithOffPeakRatio: the off-peak test is turned
\* round.
generateScheduleWithOffPeakRatio_PeakGetsAll(p, draws) ==
    [h \in 1..HOURS |->
       IF p.tariffs[h] > LOW_TARIFF THEN p.constraints.maxActivePumps
       ELSE IF draws[h] THEN p.constraints.maxActivePumps - 1
            ELSE p.constraints.maxActivePumps]

\* generateScheduleWithOffPeakRatio; draws[h] is the outcome of
\* Math.random() > ratio at hour h - 1, read at the other hours only.
generateScheduleWithOffPeakRatio(p, draws) ==
    [h \in 1..HOURS |->
       IF p.tariffs[h] < LOW_TARIFF THEN p.constraints.maxActivePumps
       ELSE IF draws[h] THEN p.constraints.maxActivePumps - 1
            ELSE p.constraints.maxActivePumps]

\* The hour loop of evaluateSchedule: acc.cost is totalCost over 10 * #pumps
\* and acc.variation is levelVariation in tenths of a percent.
RECURSIVE ScheduleHours(_, _, _, _)
ScheduleHours(schedule, p, hour, acc) ==
    IF hour = HOURS THEN acc
    ELSE LET production == schedule[hour + 1] * p.pumps[1].maxFlow
             energy == production * EfficiencySum(p.pumps)
             netFlow == production - p.demand[hour + 1]
         IN ScheduleHours(schedule, p, hour + 1,
                          [cost |-> acc.cost + energy * p.tariffs[hour + 1],
                           variation |-> acc.variation
                                           + (IF netFlow < 0 THEN -netFlow ELSE netFlow)])

\* evaluateSchedule: cost rounded to a whole number, stability in tenths.
evaluateSchedule(schedule, p) ==
    LET acc == ScheduleHours(schedule, p, 0, [cost |-> 0, variation |-> 0])
    IN [cost |-> MathRound(acc.cost, 10 * Len(p.pumps)),
        stability |-> acc.variation]

\* front.sort((a, b) => a.cost - b.cost): stable, ascending by cost.
RECURSIVE InsertByCost(_, _)
InsertByCost(sorted, x) ==
    IF sorted = <<>> THEN <<x>>
    ELSE LET last == sorted[Len(sorted)]
         IN IF last.cost - x.cost > 0
            THEN Append(InsertByCost(SubSeq(sorted, 1, Len(sorted) - 1), x), last)
            ELSE Append(sorted, x)

RECURSIVE SortByCost(_)
SortByCost(arr) ==
    IF arr = <<>> THEN <<>>
    ELSE InsertByCost(SortByCost(SubSeq(arr, 1, Len(arr) - 1)), arr[Len(arr)])

\* A call with two pumps, a tariff below, at or above LOW_TARIFF at each
\* hour, and 0 to MaxPoints samples asked for.
FrontInit ==
    /\ \E t \in [1..HOURS -> {50, LOW_TARIFF, 150}], m \in 1..2 :
         frontParams = [ParamsOf("valid", 2, m) EXCEPT !.tariffs = t]
    /\ points \in 0..MaxPoints
    /\ front = <<>>
    /\ frontPc = "loop"

\* Lines 308-320, one iteration.
PushSample ==
    /\ frontPc = "loop"
    /\ Len(front) < points
    /\ \E draws \in [1..HOURS -> BOOLEAN] :
         LET schedule == generateScheduleWithOffPeakRatio(frontParams, draws)
             res == evaluateSchedule(schedule, frontParams)
         IN front' = Append(front, [cost |-> res.cost, stability |-> res.stability,
                                    schedule |-> schedule])
    /\ UNCHANGED <<frontParams, points, frontPc, optVars, detVars, fcVars, accVars, syncVars, timelineVars, appVars>>

\* Line 322.
ReturnFront ==
    /\ frontPc = "loop"
    /\ Len(front) >= points
    /\ front' = SortByCost(front)
    /\ frontPc' = "done"
    /\ UNCHANGED <<frontParams, points, optVars, detVars, fcVars, accVars, syncVars, timelineVars, appVars>>

FrontNext == PushSample \/ ReturnFront

\* generateParetoFront is not called.
FrontIdle ==
    /\ frontParams = ParamsOf("valid", 1, 1)
    /\ points = 0
    /\ front = <<>>
    /\ frontPc = "idle"

\* One iteration of buildIsolationForest (lines 112-118) on a batch of
\* MinBatch readings: all the same, or with low, high or off readings.
ForestInit ==
    /\ data \in {BatchOf(MinBatch, nLow, nHigh) : nLow \in LowCounts, nHigh \in HighCounts}
                \cup {CauseBatch(<<a>>) : a \in 1..Len(OffReadings)}
    /\ results = <<>>
    /\ detPc = "idle"
    /\ treesBuilt = 0
    /\ builtTree = <<>>

BuildTree ==
    /\ builtTree = <<>>
    /\ \E t \in ForestTrees(data) : builtTree' = <<t>>
    /\ UNCHANGED <<data, results, detPc, treesBuilt, optVars, fcVars, accVars, syncVars, frontVars, timelineVars, appVars>>

ForestNext == BuildTree

\* The optimizer is not called.
OptIdle ==
    /\ params = ParamsOf("valid", 1, 1)
    /\ options = [populationSize |-> 1, generations |-> 0, eliteCount |-> 0]
    /\ population = <<>>
    /\ offspring = <<>>
    /\ aliases = <<>>
    /\ parent1 = NoIndividual
    /\ parent2 = NoIndividual
    /\ mutIndex = 0
    /\ gen = 0
    /\ pc = "idle"
    /\ result = NoResult
    /\ bestEvaluated = Infinity

\* The detector is not called.
DetIdle ==
    /\ data = <<>>
    /\ results = <<>>
    /\ detPc = "off"
    /\ treesBuilt = 0
    /\ builtTree = <<>>

\* optimizePumpSchedule asked for one candidate and no generation, on a call
\* whose tariff and demand are the same at every hour.
ReportInit ==
    /\ \E hourlyDemand \in {50, 100}, hourlyTariff \in {50, 150},
          maxFlow \in {60, 70, 130}, level \in {20, 50},
          minCosPhi \in {85, 90, 95}, nPumps \in 1..2, m \in 1..MaxActive :
         params = UniformParams(hourlyDemand, hourlyTariff, maxFlow, level,
                                minCosPhi, nPumps, m)
    /\ options = [populationSize |-> 1, generations |-> 0, eliteCount |-> 0]
    /\ population = <<>>
    /\ offspring = <<>>
    /\ aliases = <<>>
    /\ parent1 = NoIndividual
    /\ parent2 = NoIndividual
    /\ mutIndex = 0
    /\ gen = 0
    /\ pc = "start"
    /\ result = NoResult
    /\ bestEvaluated = Infinity

ReportNext == Initialize \/ Return

\* maxActivePumps of the README's example call, which names one pump.
README_MAX_ACTIVE == 3

\* A call shaped like the README's example: one or two pump descriptors and
\* up to README_MAX_ACTIVE pumps allowed at a time.
ReadmeInit ==
    /\ \E hourlyDemand \in {50, 100}, maxFlow \in {70, 4000}, level \in {50, 78},
          nPumps \in 1..2, m \in 1..README_MAX_ACTIVE :
         params = UniformParams(hourlyDemand, 100, maxFlow, level, 93, nPumps, m)
    /\ options = [populationSize |-> 1, generations |-> 0, eliteCount |-> 0]
    /\ population = <<>>
    /\ offspring = <<>>
    /\ aliases = <<>>
    /\ parent1 = NoIndividual
    /\ parent2 = NoIndividual
    /\ mutIndex = 0
    /\ gen = 0
    /\ pc = "start"
    /\ result = NoResult
    /\ bestEvaluated = Infinity

\* ====================================================== demand forecaster ====
\* A demand is held in thousandths of m3/h and every product is rounded to
\* the nearest thousandth; a factor is held in hundredths, confidence in
\* hundredths.  An entry of a daily pattern is the exact quotient n / d.

HOURS_PER_DAY == 24
BASE_CONSUMPTION == 6450
PEAK_HOURS_MORNING == {6, 7, 8, 9}
PEAK_HOURS_EVENING == {17, 18, 19, 20, 21}
OFF_PEAK_HOURS == {22, 23, 0, 1, 2, 3, 4, 5}

\* demand *= num / den on a demand in thousandths.
Scale(demand, num, den) == MathRound(demand * num, den)

\* The hour-specific multiplier, in tenths: 1.3, 1.4, 0.6 or none.
HourAdjustment(hour) ==
    IF hour \in PEAK_HOURS_MORNING THEN 13
    ELSE IF hour \in PEAK_HOURS_EVENING THEN 14
    ELSE IF hour \in OFF_PEAK_HOURS THEN 6
    ELSE 10

\* generateDefaultPattern: BASE_CONSUMPTION / 24 times the hour's multiplier,
\* entry h + 1 for hour h.
generateDefaultPattern ==
    [i \in 1..HOURS_PER_DAY |->
       [n |-> BASE_CONSUMPTION * HourAdjustment(i - 1), d |-> HOURS_PER_DAY * 10]]

\* The inner loop of extractDailyPattern: the sum of historical[day * 24 + hour]
\* over day < numDays, an index past the end adding nothing.
RECURSIVE SumOverDays(_, _, _, _)
SumOverDays(historical, hour, day, numDays) ==
    IF day >= numDays THEN 0
    ELSE LET idx == day * HOURS_PER_DAY + hour
         IN (IF idx < Len(historical) THEN historical[idx + 1] ELSE 0)
              + SumOverDays(historical, hour, day + 1, numDays)

\* Mutant of NumDays: a trailing partial day counts as a day.
NumDays_PartialDayCounts(historical) ==
    (Len(historical) + HOURS_PER_DAY - 1) \div HOURS_PER_DAY

\* Math.floor(historical.length / 24).
NumDays(historical) == Len(historical) \div HOURS_PER_DAY

\* Mutant of TooShort: half a day of history is taken as enough.
TooShort_HalfDay(historical) == Len(historical) < 12

\* historical.length < 24.
TooShort(historical) == Len(historical) < HOURS_PER_DAY

extractDailyPattern(historical) ==
    IF TooShort(historical) THEN generateDefaultPattern
    ELSE LET numDays == NumDays(historical)
         IN [i \in 1..HOURS_PER_DAY |->
               [n |-> SumOverDays(historical, i - 1, 0, numDays), d |-> numDays]]

\* calculateDayOfWeekFactor, in hundredths: factors[dayOfWeek] || 1.0.
calculateDayOfWeekFactor(dayOfWeek) ==
    CASE dayOfWeek = 0 -> 90
      [] dayOfWeek = 1 -> 100
      [] dayOfWeek = 2 -> 102
      [] dayOfWeek = 3 -> 101
      [] dayOfWeek = 4 -> 103
      [] dayOfWeek = 5 -> 105
      [] dayOfWeek = 6 -> 92
      [] OTHER -> 100

\* calculateTemperatureFactor, in hundredths.
calculateTemperatureFactor(temperature) ==
    IF temperature > 38 THEN 125
    ELSE IF temperature > 35 THEN 115
    ELSE IF temperature > 30 THEN 108
    ELSE IF temperature < 20 THEN 92
    ELSE 100

\* Mutant of calculateConfidence: the clamp is left out and a week of history
\* earns 0.30.
calculateConfidence_Unclamped(historicalLength, isHoliday) ==
    70 + (IF historicalLength >= 168 THEN 30
          ELSE IF historicalLength >= 72 THEN 8 ELSE 0)
       - (IF isHoliday THEN 10 ELSE 0)

\* calculateConfidence, in hundredths.
calculateConfidence(historicalLength, isHoliday) ==
    LET base == 70
        withHistory == IF historicalLength >= 168 THEN base + 15
                       ELSE IF historicalLength >= 72 THEN base + 8
                       ELSE base
        confidence == IF isHoliday THEN withHistory - 10 ELSE withHistory
    IN MathMin(95, MathMax(50, confidence))

\* basePattern[hour] || (BASE_CONSUMPTION / 24), in thousandths: a pattern
\* entry that is 0 or NaN (0 / 0) gives way to the flat base.
BaseDemand(pattern, hour) ==
    LET entry == pattern[hour + 1]
    IN IF entry.n = 0 \/ entry.d = 0
       THEN MathRound(1000 * BASE_CONSUMPTION, HOURS_PER_DAY)
       ELSE MathRound(1000 * entry.n, entry.d)

\* 0.95 + Math.random() * 0.1 in thousandths, for a draw in thousandths.
Variation(draw) == 950 + draw \div 10

\* Lines 484-505: the value pushed for one hour.
HourlyDemand(pattern, p, hour) ==
    LET d0 == BaseDemand(pattern, hour)
        d1 == Scale(d0, calculateDayOfWeekFactor(p.dayOfWeek), 100)
        d2 == Scale(d1, IF p.isHoliday THEN 85 ELSE 100, 100)
        d3 == Scale(d2, calculateTemperatureFactor(p.temperature), 100)
        d4 == Scale(d3, IF p.season = "dry" THEN 115 ELSE 100, 100)
        d5 == Scale(d4, HourAdjustment(hour), 10)
        d6 == Scale(d5, Variation(p.draws[hour + 1]), 1000)
    IN MathRound(d6, 1000)

\* Mutant of DailyTotal: the first hour is left out of the sum.
DailyTotal_SkipsFirstHour(hourly) == SumSeq(Tail(hourly))

\* Line 508: hourly.reduce((a, b) => a + b, 0).
DailyTotal(hourly) == SumSeq(hourly)

\* b.demand - a.demand on two {demand, hour} entries.
CompareDemandDescending(a, b) == b.demand - a.demand

\* Array.prototype.sort by a comparator that orders by descending demand;
\* the sort is stable.
RECURSIVE InsertByDemand(_, _)
InsertByDemand(sorted, x) ==
    IF sorted = <<>> THEN <<x>>
    ELSE LET last == sorted[Len(sorted)]
         IN IF CompareDemandDescending(last, x) > 0
            THEN Append(InsertByDemand(SubSeq(sorted, 1, Len(sorted) - 1), x), last)
            ELSE Append(sorted, x)

RECURSIVE SortByDemand(_)
SortByDemand(arr) ==
    IF arr = <<>> THEN <<>>
    ELSE InsertByDemand(SortByDemand(SubSeq(arr, 1, Len(arr) - 1)), arr[Len(arr)])

\* sort((a, b) => a - b) on a set of distinct hours.
RECURSIVE SortAscending(_)
SortAscending(S) ==
    IF S = {} THEN <<>>
    ELSE LET least == CHOOSE x \in S : \A y \in S : x <= y
         IN <<least>> \o SortAscending(S \ {least})

\* Mutant of TopSix: the first six hours of the day are taken.
TopSix_FirstHours(sortedEntries) == 0..5

\* .slice(0, 6).map(h => h.hour)
TopSix(sortedEntries) ==
    {sortedEntries[i].hour : i \in 1..MathMin(6, Len(sortedEntries))}

\* Lines 511-521: the peak hours of an hourly forecast.
PeakHours(hourly) ==
    LET entries == [i \in 1..Len(hourly) |-> [demand |-> hourly[i], hour |-> i - 1]]
    IN SortAscending(TopSix(SortByDemand(entries)))

\* ------------------------------------------------- inputs of a forecast

\* The longest history of a call.
MaxHistory == 170

\* History lengths around the thresholds 24 (one day), 72 and 168.
HistoryLengths == {0, 12, 23, 24, 47, 71, 72, 167, 168, MaxHistory}

HistoryShapes == {"constant", "ramp", "zeroNights", "lateSurge"}

\* The reading at 0-based position idx of a history of len readings: the
\* same value throughout, or a value that grows with the hour and the day, or
\* one that is 0 at night, or one that jumps in a trailing partial day.
ReadingAt(shape, idx, len) ==
    LET hour == idx % HOURS_PER_DAY
        day == idx \div HOURS_PER_DAY
    IN CASE shape = "constant" -> 200
         [] shape = "ramp" -> 100 + 10 * hour + 5 * day
         [] shape = "zeroNights" -> IF hour \in OFF_PEAK_HOURS THEN 0 ELSE 150 + day
         [] OTHER -> IF idx >= HOURS_PER_DAY * (len \div HOURS_PER_DAY)
                     THEN 360 ELSE 120 + hour

HistoryOf(shape, len) == [i \in 1..len |-> ReadingAt(shape, i - 1, len)]

\* Draws of Math.random(), in thousandths, and the ways the model lets
\* them vary over the 24 hours.
Draws == <<0, 500, 900>>
DrawSequences ==
    {[i \in 1..HOURS_PER_DAY |-> Draws[(((i - 1) * k + o) % 3) + 1]] :
       k \in 0..1, o \in 0..2}

FcInit ==
    /\ \E shape \in HistoryShapes, len \in HistoryLengths,
          dayOfWeek \in {0, 3, 5, 7}, isHoliday \in BOOLEAN,
          temperature \in {15, 25, 33, 36, 40}, season \in {"dry", "rainy"},
          draws \in DrawSequences :
         fcParams = [historical |-> HistoryOf(shape, len), dayOfWeek |-> dayOfWeek,
                     isHoliday |-> isHoliday, temperature |-> temperature,
                     season |-> season, draws |-> draws]
    /\ basePattern = <<>>
    /\ prediction = <<>>
    /\ fcPc = "start"

\* Line 471: const basePattern = extractDailyPattern(historical).
ExtractPattern ==
    /\ fcPc = "start"
    /\ basePattern' = extractDailyPattern(fcParams.historical)
    /\ fcPc' = "pattern"
    /\ UNCHANGED <<fcParams, prediction, optVars, detVars, accVars, syncVars, frontVars, timelineVars, appVars>>

\* Lines 473-528: the factors, the 24 hourly values and the object returned.
Forecast ==
    /\ fcPc = "pattern"
    /\ LET hourly == [i \in 1..HOURS_PER_DAY |->
                        HourlyDemand(basePattern, fcParams, i - 1)]
       IN prediction' =
            [hourly |-> hourly,
             dailyTotal |-> DailyTotal(hourly),
             confidence |-> calculateConfidence(Len(fcParams.historical),
                                                fcParams.isHoliday),
             peakHours |-> PeakHours(hourly),
             factors |->
               [dayOfWeekFactor |-> calculateDayOfWeekFactor(fcParams.dayOfWeek),
                holidayFactor |-> IF fcParams.isHoliday THEN 85 ELSE 100,
                temperatureFactor |-> calculateTemperatureFactor(fcParams.temperature),
                seasonalFactor |-> IF fcParams.season = "dry" THEN 115 ELSE 100]]
    /\ fcPc' = "done"
    /\ UNCHANGED <<fcParams, basePattern, optVars, detVars, accVars, syncVars, frontVars, timelineVars, appVars>>

FcNext == ExtractPattern \/ Forecast

\* ------------------------------------------- calculatePredictionAccuracy
\* mape and rmse are held in hundredths, as Math.round(x * 100) / 100
\* reports them; within5Percent is a whole percentage.

RECURSIVE GCD(_, _)
GCD(a, b) == IF b = 0 THEN a ELSE GCD(b, a % b)

\* The quotient n / d (n >= 0, d > 0) in lowest terms.
Reduced(n, d) == LET g == GCD(n, d) IN [n |-> n \div g, d |-> d \div g]

\* Math.abs(predicted[i] - actual[i])
AbsError(p, a) == IF p >= a THEN p - a ELSE a - p

\* Line 698: actual[i] > 0 ? (error / actual[i]) * 100 : 0, as a quotient.
PercentError(p, a) ==
    IF a > 0 THEN Reduced(100 * AbsError(p, a), a) ELSE [n |-> 0, d |-> 1]

\* Mutant of WithinFive: an error of exactly 0 does not count.
WithinFive_ExcludesExact(percentError) ==
    percentError.n > 0 /\ percentError.n <= 5 * percentError.d

\* Line 703: percentError <= 5.
WithinFive(percentError) == percentError.n <= 5 * percentError.d

\* The loop of lines 696-706 from 0-based position i on: totalError as a
\* quotient, totalSquaredError, the count within 5 percent and the number of
\* positions read.
RECURSIVE AccuracyLoop(_, _, _, _)
AccuracyLoop(pred, act, i, acc) ==
    IF i >= Len(pred) THEN acc
    ELSE LET p == pred[i + 1]
             a == act[i + 1]
             percentError == PercentError(p, a)
         IN AccuracyLoop(pred, act, i + 1,
              [totalError |-> Reduced(acc.totalError.n * percentError.d
                                        + percentError.n * acc.totalError.d,
                                      acc.totalError.d * percentError.d),
               totalSquaredError |-> acc.totalSquaredError + (p - a) * (p - a),
               within5Percent |-> IF WithinFive(percentError)
                                  THEN acc.within5Percent + 1
                                  ELSE acc.within5Percent,
               read |-> acc.read + 1])

\* Math.round(Math.sqrt(total / count) * 100), the rmse in hundredths.
RoundedRootHundredths(total, count) ==
    (FloorSqrt((40000 * total) \div count) + 1) \div 2

\* Mutant of Mismatched: only a difference of lengths is refused.
Mismatched_EmptyAllowed(pred, act) == Len(pred) # Len(act)

\* Line 688: predicted.length !== actual.length || predicted.length === 0.
Mismatched(pred, act) == Len(pred) # Len(act) \/ Len(pred) = 0

\* calculatePredictionAccuracy, with the number of positions it read.
calculatePredictionAccuracy(pred, act) ==
    IF Mismatched(pred, act)
    THEN [mape |-> 0, rmse |-> 0, within5Percent |-> 0, read |-> 0]
    ELSE LET count == Len(pred)
             acc == AccuracyLoop(pred, act, 0,
                      [totalError |-> [n |-> 0, d |-> 1], totalSquaredError |-> 0,
                       within5Percent |-> 0, read |-> 0])
         IN [mape |-> IF count = 0 THEN NaN
                      ELSE MathRound(100 * acc.totalError.n, acc.totalError.d * count),
             rmse |-> IF count = 0 THEN NaN
                      ELSE RoundedRootHundredths(acc.totalSquaredError, count),
             within5Percent |-> IF count = 0 THEN NaN
                                ELSE MathRound(100 * acc.within5Percent, count),
             read |-> acc.read]

\* The longest series of a call, and the values a series is made of.
MaxSeriesLen == 3
SeriesValues == {0, 19, 20, 21}
Series == UNION {[1..len -> SeriesValues] : len \in 0..MaxSeriesLen}

AccInit ==
    /\ predicted \in Series
    /\ actual \in Series
    /\ accuracy = <<>>
    /\ elementsRead = 0
    /\ accPc = "idle"

CalculateAccuracy ==
    /\ accPc = "idle"
    /\ LET returned == calculatePredictionAccuracy(predicted, actual)
       IN /\ accuracy' = [mape |-> returned.mape, rmse |-> returned.rmse,
                          within5Percent |-> returned.within5Percent]
          /\ elementsRead' = returned.read
    /\ accPc' = "done"
    /\ UNCHANGED <<predicted, actual, optVars, detVars, fcVars, syncVars, frontVars, timelineVars, appVars>>

AccNext == CalculateAccuracy

\* ============================================================ sync queue ====
\* A queue item is its number; the pending asynchronous steps of the store
\* are the actions the scheduler is fair to.

\* How many sync queue items a run creates, the persisted ones included.
MaxItems == 2

\* The store as created (lines 140-150) over an IndexedDB that holds the
\* items an earlier session left: isOnline is navigator.onLine and no
\* listener is registered yet.
SyncInit ==
    /\ deviceOnline \in BOOLEAN
    /\ isOnline = deviceOnline
    /\ syncStatus = "idle"
    /\ syncQueue = <<>>
    /\ pendingSyncCount = 0
    /\ \E persisted \in 0..(MaxItems - 1) :
         /\ dbQueue = [i \in 1..persisted |-> i]
         /\ created = persisted
    /\ listening = FALSE
    /\ passPc = "off"
    /\ passItems = <<>>
    /\ addPc = "off"

\* syncData up to its first await with the test of syncStatus left out of
\* line 328.
StartSyncData_IgnoresSyncing(online, status) ==
    IF ~online
    THEN /\ UNCHANGED <<syncStatus, passPc>>
    ELSE /\ syncStatus' = "syncing"
         /\ passPc' = "fetch"

\* syncData up to its first await (lines 327-333), called in a state where
\* the store's isOnline is `online` and its syncStatus is `status`.
StartSyncData(online, status) ==
    IF ~online \/ status = "syncing"
    THEN /\ UNCHANGED <<syncStatus, passPc>>
    ELSE /\ syncStatus' = "syncing"
         /\ passPc' = "fetch"

\* initialize (lines 393-409): the listeners are registered once the
\* database is open and the initial data loaded.
RegisterListeners ==
    /\ ~listening
    /\ listening' = TRUE
    /\ UNCHANGED <<deviceOnline, isOnline, syncStatus, syncQueue, pendingSyncCount,
                   dbQueue, passPc, passItems, addPc, created>>
    /\ UNCHANGED <<optVars, detVars, fcVars, accVars, frontVars, timelineVars, appVars>>

\* The device gets its network back: the 'online' event, and with it
\* setOnlineStatus(true) if the listener is registered.
GoOnline ==
    /\ ~deviceOnline
    /\ deviceOnline' = TRUE
    /\ IF listening
       THEN /\ isOnline' = TRUE
            /\ StartSyncData(TRUE, syncStatus)
       ELSE UNCHANGED <<isOnline, syncStatus, passPc>>
    /\ UNCHANGED <<syncQueue, pendingSyncCount, dbQueue, listening, passItems,
                   addPc, created>>
    /\ UNCHANGED <<optVars, detVars, fcVars, accVars, frontVars, timelineVars, appVars>>

\* The device loses its network: the 'offline' event, and with it
\* setOnlineStatus(false) if the listener is registered.
GoOffline ==
    /\ deviceOnline
    /\ deviceOnline' = FALSE
    /\ isOnline' = IF listening THEN FALSE ELSE isOnline
    /\ UNCHANGED <<syncStatus, syncQueue, pendingSyncCount, dbQueue, listening,
                   passPc, passItems, addPc, created>>
    /\ UNCHANGED <<optVars, detVars, fcVars, accVars, frontVars, timelineVars, appVars>>

\* addHistoricalAction or applyRecommendation while the store is offline
\* (lines 227-233, 313-319): addToSyncQueue puts a new item (line 363).
QueueAction ==
    /\ ~isOnline
    /\ addPc = "off"
    /\ created < MaxItems
    /\ created' = created + 1
    /\ dbQueue' = Append(dbQueue, created + 1)
    /\ addPc' = "refresh"
    /\ UNCHANGED <<deviceOnline, isOnline, syncStatus, syncQueue, pendingSyncCount,
                   listening, passPc, passItems>>
    /\ UNCHANGED <<optVars, detVars, fcVars, accVars, frontVars, timelineVars, appVars>>

\* addToSyncQueue, lines 364-368: the store takes over the queue as read.
RefreshQueue ==
    /\ addPc = "refresh"
    /\ syncQueue' = dbQueue
    /\ pendingSyncCount' = Len(dbQueue)
    /\ addPc' = "off"
    /\ UNCHANGED <<deviceOnline, isOnline, syncStatus, dbQueue, listening, passPc,
                   passItems, created>>
    /\ UNCHANGED <<optVars, detVars, fcVars, accVars, frontVars, timelineVars, appVars>>

\* syncData, line 333: const queue = await getSyncQueue().
FetchQueue ==
    /\ passPc = "fetch"
    /\ passItems' = dbQueue
    /\ passPc' = "items"
    /\ UNCHANGED <<deviceOnline, isOnline, syncStatus, syncQueue, pendingSyncCount,
                   dbQueue, listening, addPc, created>>
    /\ UNCHANGED <<optVars, detVars, fcVars, accVars, frontVars, timelineVars, appVars>>

\* dbQueue without the item id.
Without(queue, id) == SelectSeq(queue, LAMBDA x : x # id)

\* syncData, lines 335-341: the next item of queue is sent and removed.
SyncItem ==
    /\ passPc = "items"
    /\ passItems # <<>>
    /\ dbQueue' = Without(dbQueue, Head(passItems))
    /\ passItems' = Tail(passItems)
    /\ UNCHANGED <<deviceOnline, isOnline, syncStatus, syncQueue, pendingSyncCount,
                   listening, passPc, addPc, created>>
    /\ UNCHANGED <<optVars, detVars, fcVars, accVars, frontVars, timelineVars, appVars>>

\* syncData, lines 348-354: the pass ends on the queue as it is now.
FinishPass ==
    /\ passPc = "items"
    /\ passItems = <<>>
    /\ syncStatus' = "idle"
    /\ syncQueue' = dbQueue
    /\ pendingSyncCount' = Len(dbQueue)
    /\ passPc' = "off"
    /\ UNCHANGED <<deviceOnline, isOnline, dbQueue, listening, passItems, addPc,
                   created>>
    /\ UNCHANGED <<optVars, detVars, fcVars, accVars, frontVars, timelineVars, appVars>>

\* The pending asynchronous steps.
SyncSteps ==
    \/ RegisterListeners
    \/ RefreshQueue
    \/ FetchQueue
    \/ SyncItem
    \/ FinishPass

SyncNext == SyncSteps \/ GoOnline \/ GoOffline \/ QueueAction

\* syncData called through the store (line 126) by any of its users, in
\* whatever state the store is in.
CallSyncData ==
    /\ StartSyncData(isOnline, syncStatus)
    /\ UNCHANGED <<deviceOnline, isOnline, syncQueue, pendingSyncCount, dbQueue,
                   listening, passItems, addPc, created>>
    /\ UNCHANGED <<optVars, detVars, fcVars, accVars, frontVars, timelineVars, appVars>>

\* syncData, lines 335-346: sending or removing the next item fails, the
\* inner catch counts the retry and the loop goes on; the item stays queued.
SyncItemFails ==
    /\ passPc = "items"
    /\ passItems # <<>>
    /\ passItems' = Tail(passItems)
    /\ UNCHANGED <<deviceOnline, isOnline, syncStatus, syncQueue, pendingSyncCount,
                   dbQueue, listening, passPc, addPc, created>>
    /\ UNCHANGED <<optVars, detVars, fcVars, accVars, frontVars, timelineVars, appVars>>

\* syncData, lines 355-358: getSyncQueue (line 333 or 348) or
\* incrementRetryCount (line 345) rejects and the outer catch ends the pass.
PassFails ==
    /\ passPc \in {"fetch", "items"}
    /\ syncStatus' = "error"
    /\ passPc' = "off"
    /\ passItems' = <<>>
    /\ UNCHANGED <<deviceOnline, isOnline, syncQueue, pendingSyncCount, dbQueue,
                   listening, addPc, created>>
    /\ UNCHANGED <<optVars, detVars, fcVars, accVars, frontVars, timelineVars, appVars>>

\* The store with direct calls of syncData and a database that can fail.
SyncCallsNext == SyncNext \/ CallSyncData \/ SyncItemFails \/ PassFails

\* ===================================================== application shell ====
\* useAuth (src/hooks/useAuth.ts), AuthPage (part_002) and AppContent with its
\* Navigation (part_005).

\* type UserRole (types/index.ts, line 3).
UserRoles == {"technicien", "regional", "dg"}

\* Emails that pass AuthPage's emailRegex (line 699).
Emails == {"a@onea.bf", "b@onea.bf"}

\* null as a User: no one is logged in.
NoUser == [email |-> "", role |-> "none", offline |-> FALSE]

\* A localStorage entry that JSON.parse rejects.
CorruptUser == [email |-> "", role |-> "corrupt", offline |-> FALSE]

\* login's newUser (useAuth.ts, lines 41-47).
PasswordUser(email) == [email |-> email, role |-> "technicien", offline |-> FALSE]

\* demoLogin's newUser (useAuth.ts, lines 61-67).
DemoUser(role) ==
    [email |-> CASE role = "technicien" -> "demo.technicien@onea.bf"
                 [] role = "regional" -> "demo.regional@onea.bf"
                 [] role = "dg" -> "demo.dg@onea.bf",
     role |-> role, offline |-> TRUE]

\* Navigation's navItems (part_005, lines 22-28): the roles of each item.
navItems ==
    [dashboard |-> UserRoles, optimisation |-> UserRoles, anomalies |-> UserRoles,
     regional |-> {"regional", "dg"}, dg |-> {"dg"}]

\* availableItems (part_005, line 30).
availableItems(userRole) == {id \in DOMAIN navItems : userRole \in navItems[id]}

\* renderContent (part_005, lines 106-128): the component shown for the view.
renderContent(view, role) ==
    CASE view = "dashboard" -> "TechnicienDashboard"
      [] view = "optimisation" -> "OptimisationModule"
      [] view = "anomalies" -> "AnomaliesModule"
      [] view = "regional" ->
           IF role = "regional" \/ role = "dg"
           THEN "RegionalDashboard"
           ELSE "TechnicienDashboard"
      [] view = "dg" -> IF role = "dg" THEN "DGDashboard" ELSE "RegionalDashboard"
      [] OTHER -> "TechnicienDashboard"

\* What AppContent returns (part_005, lines 90-128).
Shown ==
    IF showLanding THEN "LandingPage"
    ELSE IF user.role = "none" THEN "AuthPage"
    ELSE renderContent(currentView, user.role)

\* AppContent as first rendered (useAuth.ts lines 7-8, part_005 lines 69-70),
\* over whatever an earlier session left in localStorage.
AppInit ==
    /\ user = NoUser
    /\ isLoading = TRUE
    /\ storedUser \in {NoUser, CorruptUser}
                        \cup {DemoUser(r) : r \in UserRoles}
                        \cup {PasswordUser(e) : e \in Emails}
    /\ currentView = "dashboard"
    /\ showLanding = TRUE
    /\ authPageLoading = FALSE
    /\ pendingLogins = {}

\* useAuth's mount effect (lines 26-37): the stored user, if it parses.
LoadUser ==
    /\ isLoading
    /\ user' = IF storedUser.role \in UserRoles THEN storedUser ELSE user
    /\ isLoading' = FALSE
    /\ UNCHANGED <<storedUser, currentView, showLanding, authPageLoading, pendingLogins>>
    /\ UNCHANGED <<optVars, detVars, fcVars, accVars, syncVars, frontVars, timelineVars>>

\* handleStartDemo (part_005, lines 73-75), from the landing page.
StartDemo ==
    /\ ~isLoading
    /\ Shown = "LandingPage"
    /\ showLanding' = FALSE
    /\ UNCHANGED <<user, isLoading, storedUser, currentView, authPageLoading, pendingLogins>>
    /\ UNCHANGED <<optVars, detVars, fcVars, accVars, syncVars, frontVars, timelineVars>>

\* AuthPage's handleSubmit up to its wait (part_002, lines 694-713), with a
\* valid email and a password; the submit button is disabled while isLoading.
SubmitLogin ==
    /\ Shown = "AuthPage"
    /\ ~authPageLoading
    /\ \E email \in Emails : pendingLogins' = pendingLogins \cup {email}
    /\ authPageLoading' = TRUE
    /\ UNCHANGED <<user, isLoading, storedUser, currentView, showLanding>>
    /\ UNCHANGED <<optVars, detVars, fcVars, accVars, syncVars, frontVars, timelineVars>>

\* handleSubmit after its wait (part_002, line 715): login (useAuth.ts, lines
\* 39-52) stores and sets a technicien, whatever is shown by now.
PasswordLogin ==
    /\ \E email \in pendingLogins :
         /\ user' = PasswordUser(email)
         /\ storedUser' = PasswordUser(email)
         /\ pendingLogins' = pendingLogins \ {email}
    /\ UNCHANGED <<isLoading, currentView, showLanding, authPageLoading>>
    /\ UNCHANGED <<optVars, detVars, fcVars, accVars, syncVars, frontVars, timelineVars>>

\* A demo button of AuthPage (part_002, lines 722-724): handleDemoLogin
\* (part_005, lines 78-88) with demoLogin (useAuth.ts, lines 54-71).
DemoLogin ==
    /\ Shown = "AuthPage"
    /\ \E role \in UserRoles :
         /\ user' = DemoUser(role)
         /\ storedUser' = DemoUser(role)
         /\ currentView' = IF role = "dg" THEN "dg"
                           ELSE IF role = "regional" THEN "regional"
                           ELSE "dashboard"
    /\ UNCHANGED <<isLoading, showLanding, authPageLoading, pendingLogins>>
    /\ UNCHANGED <<optVars, detVars, fcVars, accVars, syncVars, frontVars, timelineVars>>

\* A click on one of Navigation's buttons (part_005, lines 47-60).
Navigate ==
    /\ Shown \notin {"LandingPage", "AuthPage"}
    /\ \E id \in availableItems(user.role) : currentView' = id
    /\ UNCHANGED <<user, isLoading, storedUser, showLanding, authPageLoading, pendingLogins>>
    /\ UNCHANGED <<optVars, detVars, fcVars, accVars, syncVars, frontVars, timelineVars>>

\* The logout button, which only TechnicienDashboard has (part_002, line
\* 355): logout (useAuth.ts, lines 73-76); AuthPage is mounted anew.
Logout ==
    /\ Shown = "TechnicienDashboard"
    /\ user' = NoUser
    /\ storedUser' = NoUser
    /\ authPageLoading' = FALSE
    /\ UNCHANGED <<isLoading, currentView, showLanding, pendingLogins>>
    /\ UNCHANGED <<optVars, detVars, fcVars, accVars, syncVars, frontVars, timelineVars>>

AppNext ==
    \/ LoadUser
    \/ StartDemo
    \/ SubmitLogin
    \/ PasswordLogin
    \/ DemoLogin
    \/ Navigate
    \/ Logout

\* The application shell is not mounted.
AppIdle ==
    /\ user = NoUser
    /\ isLoading = FALSE
    /\ storedUser = NoUser
    /\ currentView = "dashboard"
    /\ showLanding = TRUE
    /\ authPageLoading = FALSE
    /\ pendingLogins = {}

\* predictDemand is not called.
FcIdle ==
    /\ fcParams = <<>>
    /\ basePattern = <<>>
    /\ prediction = <<>>
    /\ fcPc = "off"

\* calculatePredictionAccuracy is not called.
AccIdle ==
    /\ predicted = <<>>
    /\ actual = <<>>
    /\ accuracy = <<>>
    /\ elementsRead = 0
    /\ accPc = "off"

\* The store is not created.
SyncIdle ==
    /\ deviceOnline = TRUE
    /\ isOnline = TRUE
    /\ syncStatus = "idle"
    /\ syncQueue = <<>>
    /\ pendingSyncCount = 0
    /\ dbQueue = <<>>
    /\ listening = FALSE
    /\ passPc = "off"
    /\ passItems = <<>>
    /\ addPc = "off"
    /\ created = 0

\* One call of optimizePumpSchedule.
Init == OptInit /\ DetIdle /\ FcIdle /\ AccIdle /\ SyncIdle /\ FrontIdle /\ TimelineIdle /\ AppIdle
Next == OptNext
Spec == Init /\ [][Next]_vars

\* One call of detectAnomalies.
InitDetect == DetInit /\ OptIdle /\ FcIdle /\ AccIdle /\ SyncIdle /\ FrontIdle /\ TimelineIdle /\ AppIdle
SpecDetect == InitDetect /\ [][DetNext]_vars

\* One call of detectAnomalies on a batch with readings that are off.
InitCause == CauseInit /\ OptIdle /\ FcIdle /\ AccIdle /\ SyncIdle /\ FrontIdle /\ TimelineIdle /\ AppIdle
SpecCause == InitCause /\ [][DetNext]_vars

\* optimizePumpSchedule on a call shaped like the README's example.
InitReadme == ReadmeInit /\ DetIdle /\ FcIdle /\ AccIdle /\ SyncIdle /\ FrontIdle /\ TimelineIdle /\ AppIdle
SpecReadme == InitReadme /\ [][ReportNext]_vars

\* One call of generateParetoFront.
InitFront == FrontInit /\ OptIdle /\ DetIdle /\ FcIdle /\ AccIdle /\ SyncIdle /\ TimelineIdle /\ AppIdle
SpecFront == InitFront /\ [][FrontNext]_vars

\* One call of generateAnomalyTimeline.
InitTimeline == TimelineInit /\ OptIdle /\ DetIdle /\ FcIdle /\ AccIdle /\ SyncIdle /\ FrontIdle /\ AppIdle
SpecTimeline == InitTimeline /\ [][TimelineNext]_vars

\* One buildTree call of buildIsolationForest.
InitForest == ForestInit /\ OptIdle /\ FcIdle /\ AccIdle /\ SyncIdle /\ FrontIdle /\ TimelineIdle /\ AppIdle
SpecForest == InitForest /\ [][ForestNext]_vars

\* evaluateIndividual on one candidate of a uniform-tariff, constant-demand
\* call.
InitEvaluate == EvalInit /\ DetIdle /\ FcIdle /\ AccIdle /\ SyncIdle /\ FrontIdle /\ TimelineIdle /\ AppIdle
SpecEvaluate == InitEvaluate /\ [][EvalNext]_vars

\* One call of optimizePumpSchedule that returns its one initial candidate.
InitReport == ReportInit /\ DetIdle /\ FcIdle /\ AccIdle /\ SyncIdle /\ FrontIdle /\ TimelineIdle /\ AppIdle
SpecReport == InitReport /\ [][ReportNext]_vars

\* The store from its creation on, every pending asynchronous step being
\* taken sooner or later.
InitSync == SyncInit /\ OptIdle /\ DetIdle /\ FcIdle /\ AccIdle /\ FrontIdle /\ TimelineIdle /\ AppIdle
SpecSync == InitSync /\ [][SyncNext]_vars /\ WF_vars(SyncSteps)
SpecSyncCalls == InitSync /\ [][SyncCallsNext]_vars /\ WF_vars(SyncSteps)

\* One call of predictDemand.
InitForecast == FcInit /\ OptIdle /\ DetIdle /\ AccIdle /\ SyncIdle /\ FrontIdle /\ TimelineIdle /\ AppIdle
SpecForecast == InitForecast /\ [][FcNext]_vars

\* One call of calculatePredictionAccuracy.
InitAccuracy == AccInit /\ OptIdle /\ DetIdle /\ FcIdle /\ SyncIdle /\ FrontIdle /\ TimelineIdle /\ AppIdle
SpecAccuracy == InitAccuracy /\ [][AccNext]_vars

\* The application shell from its first render on.
InitApp == AppInit /\ OptIdle /\ DetIdle /\ FcIdle /\ AccIdle /\ SyncIdle /\ FrontIdle /\ TimelineIdle
SpecApp == InitApp /\ [][AppNext]_vars

\* ================================================================ claims ====

AllIndividuals ==
    {population[i] : i \in 1..Len(population)}
      \cup {offspring[i] : i \in 1..Len(offspring)}

WellFormed(chromosome, p) ==
    /\ Len(chromosome) = HOURS
    /\ \A h \in 1..HOURS :
         chromosome[h] \in 0..p.constraints.maxActivePumps

\* C1: for a valid input every individual of the population and of the
\* offspring pool, at every point of the run, and the planning returned, has
\* exactly HOURS genes, each an integer in [0, maxActivePumps].
C1_ChromosomesWellFormed ==
    ValidInput(params) =>
      /\ \A ind \in AllIndividuals : WellFormed(ind.chromosome, params)
      /\ (pc = "done" => WellFormed(result.planning, params))

\* C1 witness: a valid call has returned after at least one generation of
\* crossover and mutation.
C1_Witness ==
    /\ pc = "done"
    /\ ValidInput(params)
    /\ gen >= 1
    /\ Len(result.planning) = HOURS

\* C2: on every step of a valid run the lowest fitness in the population
\* does not rise: the population after a generation is never worse than the
\* one before it, the evaluated initial population included.
C2_LowestFitnessNeverRises ==
    [][(ValidInput(params) /\ population # <<>> /\ population' # <<>>)
         => ~Less(LowestFitness(population, Infinity),
                  LowestFitness(population', Infinity))]_vars

\* C2 witness: two generations of a valid run are complete and the
\* population holds two candidates of different fitness.
C2_Witness ==
    /\ ValidInput(params)
    /\ gen >= 2
    /\ Len(population) >= 2
    /\ Less(population[1].fitness, population[2].fitness)

\* C3: the individual returned for a valid input has a fitness at or below
\* that of every individual the run evaluated.
C3_BestNeverLost ==
    (pc = "done" /\ ValidInput(params)) => ~Less(bestEvaluated, result.fitness)

\* A schedule with no reservoir violation and a power factor of at least
\* minCosPhi.
Feasible(ind, p) ==
    /\ ind.reservoirViolation = 0
    /\ CosPhiShortfall(ind.chromosome, p) = 0

\* ind is feasible and no feasible schedule has fewer pump-hours.
FewestPumpHours(ind, p) ==
    /\ Feasible(ind, p)
    /\ \A c \in Chromosomes(p.constraints.maxActivePumps) :
         Feasible(evaluateIndividual(NewIndividual(c), p), p)
           => SumSeq(c) >= SumSeq(ind.chromosome)

\* The sum over the hours of demand x sum of efficiencies x tariff, over
\* 50 * #pumps: the uniform baseline before rounding.
BaselineSum(p) ==
    SumSeq([h \in 1..HOURS |->
              5 * p.demand[h] * EfficiencySum(p.pumps) * p.tariffs[h]])

\* C4 as claimed: under a flat tariff and a constant demand the feasible
\* schedule with the fewest pump-hours costs at most the uniform baseline.
C4_AtOrBelowBaseline ==
    (pc = "evaluated" /\ FewestPumpHours(population[1], params))
      => population[1].cost <= MathRound(BaselineSum(params), 50 * Len(params.pumps))

\* C4 as amended: that schedule costs at most the rounded sum over the
\* hours of 1.2 x demand x average efficiency x tariff.
C4_AtOrBelowCappedBaseline ==
    (pc = "evaluated" /\ FewestPumpHours(population[1], params))
      => population[1].cost
           <= MathRound(6 * BaselineSum(params), 5 * 50 * Len(params.pumps))

\* C4 witness: a feasible schedule with the fewest pump-hours has been
\* evaluated and costs more than the uniform baseline.
C4_Witness ==
    /\ pc = "evaluated"
    /\ FewestPumpHours(population[1], params)
    /\ population[1].cost > MathRound(BaselineSum(params), 50 * Len(params.pumps))

\* C5: a call whose demand or tariffs do not have HOURS entries, or whose
\* pump list is empty, returns no schedule.
C5_InvalidInputRejected ==
    pc = "done" =>
      /\ Len(params.demand) = HOURS
      /\ Len(params.tariffs) = HOURS
      /\ Len(params.pumps) >= 1

\* C6: for a valid input cost + savings of the result is the uniform
\* baseline, the rounded sum of demand x average efficiency x tariff, which
\* the inputs alone fix.
C6_CostPlusSavingsIsBaseline ==
    (pc = "done" /\ ValidInput(params))
      => result.cost + result.savings
           = MathRound(BaselineSum(params), 50 * Len(params.pumps))

\* C6 witness: a valid call with two pumps of different efficiency has
\* returned a schedule whose cost differs from the baseline.
C6_Witness ==
    /\ pc = "done"
    /\ ValidInput(params)
    /\ Len(params.pumps) = 2
    /\ result.savings # 0

\* C7: a call with fewer than 10 readings returns, for every reading, score
\* 0, no anomaly flag, confidence 0 and the insufficient-data cause, and
\* builds no tree.
C7_FallbackBelowTenReadings ==
    (detPc = "done" /\ Len(data) < 10) =>
      /\ Len(results) = Len(data)
      /\ \A i \in 1..Len(results) :
           /\ results[i].score = 0
           /\ results[i].isAnomaly = FALSE
           /\ results[i].confidence = 0
           /\ results[i].probableCause = <<"Insufficient data">>
      /\ treesBuilt = 0

\* C7 witness: a call with 9 readings has returned its 9 results.
C7_Witness ==
    /\ detPc = "done"
    /\ Len(data) = 9
    /\ Len(results) = 9
    /\ data[1].kwhM3 # data[9].kwhM3

Defined(x) == x # NaN /\ x # Infinity

\* C8: for a batch of at least 10 readings whose energy-per-volume or flow
\* is the same in every reading, no score, confidence or deviation of any
\* result is NaN or infinite.
C8_ConstantFeatureGivesNumbers ==
    (/\ detPc = "done"
     /\ Len(data) >= 10
     /\ \/ calculateBaseline(data).kwhM3.varNum = 0
        \/ calculateBaseline(data).debit.varNum = 0)
      => \A i \in 1..Len(results) :
           /\ Defined(results[i].score)
           /\ Defined(results[i].confidence)
           /\ Defined(results[i].features.kwhM3Deviation)
           /\ Defined(results[i].features.debitDeviation)
           /\ Defined(results[i].features.combinedScore)

\* C9: every score that is a number lies in [0, 1] (reported in
\* thousandths).
C9_ScoreInUnitInterval ==
    detPc = "done" =>
      \A i \in 1..Len(results) :
        results[i].score # NaN => (0 <= results[i].score /\ results[i].score <= 1000)

\* C10: on at least 10 readings the flag of a result is set exactly when
\* the score the same result reports is above 0.15 (150 thousandths).
C10_FlagMatchesReportedScore ==
    (detPc = "done" /\ Len(data) >= 10) =>
      \A i \in 1..Len(results) :
        results[i].isAnomaly <=> Greater(results[i].score, 150)

\* C11: the call leaves its input as it was and returns one result per
\* reading, in input order: result i carries the timestamp of reading i, on
\* the fallback path and on the scoring path.
C11_OneResultPerReadingInOrder ==
    [][detPc' = "done" =>
         /\ data' = data
         /\ Len(results') = Len(data)
         /\ \A i \in 1..Len(data) : results'[i].timestamp = data[i].timestamp]_vars

\* C11 witness: a scored batch of at least 10 readings has come back, its
\* last result stamped as the last reading.
C11_Witness ==
    /\ detPc = "done"
    /\ Len(data) >= 10
    /\ treesBuilt > 0
    /\ results[Len(data)].timestamp = Len(data)

\* C12: the confidence of every forecast is within [0.5, 0.95], whatever the
\* length of the history and the holiday flag.
C12_ConfidenceWithinBounds ==
    fcPc = "done" => (prediction.confidence >= 50 /\ prediction.confidence <= 95)

\* C12 witness: the forecast from an empty history on a holiday has come
\* back with confidence 0.60.
C12_Witness ==
    /\ fcPc = "done"
    /\ Len(fcParams.historical) = 0
    /\ fcParams.isHoliday
    /\ prediction.confidence = 60

\* C13: every forecast has exactly 24 hourly values and its dailyTotal is the
\* sum of those 24 values as returned.
C13_DailyTotalIsSumOfHourly ==
    fcPc = "done" =>
      /\ Len(prediction.hourly) = 24
      /\ prediction.dailyTotal = SumSeq(prediction.hourly)

\* C13 witness: a forecast whose hourly values differ from hour to hour has
\* come back.
C13_Witness ==
    /\ fcPc = "done"
    /\ prediction.hourly[1] # prediction.hourly[8]
    /\ prediction.dailyTotal > 24 * prediction.hourly[1]

\* The sum of the readings at hour `hour` of the first `days` days.
RECURSIVE CompleteDaySum(_, _, _)
CompleteDaySum(historical, hour, days) ==
    IF days = 0 THEN 0
    ELSE historical[(days - 1) * 24 + hour + 1]
           + CompleteDaySum(historical, hour, days - 1)

C15_ShortHistoryUsesDefaultPattern ==
    (fcPc = "done" /\ Len(fcParams.historical) < 24) =>
      /\ basePattern = generateDefaultPattern
      /\ prediction.hourly =
           [i \in 1..24 |-> HourlyDemand(generateDefaultPattern, fcParams, i - 1)]
      /\ prediction.confidence <= 70

\* C15 witness: a call with 12 historical points has returned.
C15_Witness ==
    /\ fcPc = "done"
    /\ Len(fcParams.historical) = 12
    /\ Len(prediction.hourly) = 24

\* C18: peakHours are 6 distinct hours of 0..23 in strictly ascending order
\* and no other hour has a forecast value above that of a peak hour.
C18_PeakHoursAreTheSixHighest ==
    fcPc = "done" =>
      LET peak == prediction.peakHours
          inPeak == {peak[i] : i \in 1..Len(peak)}
      IN /\ Len(peak) = 6
         /\ inPeak \subseteq 0..23
         /\ \A i \in 1..(Len(peak) - 1) : peak[i] < peak[i + 1]
         /\ \A h \in (0..23) \ inPeak : \A q \in inPeak :
              prediction.hourly[h + 1] <= prediction.hourly[q + 1]

\* C18 witness: a forecast has come back in which an hour outside peakHours
\* has the same value as one inside.
C18_Witness ==
    /\ fcPc = "done"
    /\ Len(prediction.peakHours) = 6
    /\ \E h \in 0..23 :
         /\ \A i \in 1..6 : prediction.peakHours[i] # h
         /\ \E i \in 1..6 :
              prediction.hourly[h + 1] = prediction.hourly[prediction.peakHours[i] + 1]

\* C16: sequences of different lengths, or two empty ones, give mape 0,
\* rmse 0 and within5Percent 0, and no element is read.
C16_MismatchGivesZeros ==
    (accPc = "done" /\ (Len(predicted) # Len(actual) \/ Len(predicted) = 0)) =>
      /\ accuracy = [mape |-> 0, rmse |-> 0, within5Percent |-> 0]
      /\ elementsRead = 0

\* C16 witness: a call with three predicted and two actual values, the
\* first ones unequal, has returned.
C16_Witness ==
    /\ accPc = "done"
    /\ Len(predicted) = 3
    /\ Len(actual) = 2
    /\ predicted[1] # actual[1]

\* C17: equal-length, non-empty sequences that agree at every position give
\* mape 0, rmse 0 and within5Percent 100.
C17_PerfectPredictionScores ==
    (accPc = "done" /\ Len(predicted) > 0 /\ predicted = actual) =>
      accuracy = [mape |-> 0, rmse |-> 0, within5Percent |-> 100]

\* C17 witness: a call on two equal sequences of three values, one of
\* them 0, has returned.
C17_Witness ==
    /\ accPc = "done"
    /\ Len(predicted) = 3
    /\ predicted = actual
    /\ predicted[2] = 0
    /\ predicted[1] = 20
    /\ elementsRead = 3

\* The reservoir level evaluateIndividual holds after each hour (lines
\* 154-165), in 1/50 percent: production is capped at 1.2 x demand.
RECURSIVE EvaluatedLevels(_, _, _, _)
EvaluatedLevels(chromosome, p, hour, currentReservoir) ==
    IF hour = HOURS THEN <<>>
    ELSE LET productionCapacity ==
                 Times(Times(5, At(chromosome, hour)), p.pumps[1].maxFlow)
             actualProduction ==
                 MathMin(productionCapacity, Times(6, At(p.demand, hour)))
             next == Plus(currentReservoir,
                          Minus(actualProduction, Times(5, At(p.demand, hour))))
         IN <<next>> \o EvaluatedLevels(chromosome, p, hour + 1, next)

\* C20: reservoirLevels of the result has one entry more than the day has
\* hours, starts at the input level, and continues with the clamped levels
\* the fitness evaluation went through for the returned schedule.
C20_ReportedLevelsAreEvaluatedLevels ==
    (pc = "done" /\ ValidInput(params)) =>
      LET evaluated == EvaluatedLevels(result.planning, params, 0,
                                       50 * params.reservoirLevel)
      IN /\ Len(result.reservoirLevels) = HOURS + 1
         /\ result.reservoirLevels[1] = 50 * params.reservoirLevel
         /\ \A h \in 1..HOURS :
              result.reservoirLevels[h + 1] = ClampLevel(evaluated[h])

\* C19: if from some point on the device stays online, then from some point
\* on the sync queue is empty: every action queued while offline, or
\* persisted at application start, is removed in the end.
C19_QueuedActionsEventuallySynced ==
    <>[]deviceOnline => <>[](dbQueue = <<>>)

\* C21: after initialization and after every generation the population holds
\* exactly populationSize individuals in non-decreasing fitness order.
C21_PopulationSizedAndSorted ==
    (ValidInput(params) /\ pc \notin {"start", "threw"}) =>
        /\ Len(population) = options.populationSize
        /\ \A i \in 1..(Len(population) - 1) :
             population[i].fitness <= population[i + 1].fitness

\* How many genes differ between two chromosomes of the same length.
DifferingGenes(c1, c2) == Cardinality({h \in 1..Len(c1) : c1[h] # c2[h]})

\* C22: a step of the mutation loop leaves the offspring below eliteCount as
\* they are, changes at most one gene of any offspring, and changes nothing
\* in the parent population, also when the offspring is a clone of a parent.
C22_MutationChangesOneGeneOfOneOffspring ==
    [][(pc = "mutate" /\ pc' = "mutate") =>
         /\ population' = population
         /\ Len(offspring') = Len(offspring)
         /\ \A j \in 1..Len(offspring) :
              /\ (j - 1 < options.eliteCount => offspring'[j] = offspring[j])
              /\ DifferingGenes(offspring[j].chromosome,
                                offspring'[j].chromosome) <= 1]_vars

\* A clone at a position at or above eliteCount was mutated: its chromosome
\* is no longer the chromosome of any parent.
C22_Witness ==
    /\ pc = "mutate"
    /\ \E j \in 1..Len(offspring) :
         /\ j - 1 >= options.eliteCount
         /\ j <= mutIndex
         /\ offspring[j].fitness # Infinity
         /\ \A i \in 1..Len(population) :
              population[i].chromosome # offspring[j].chromosome

\* The cause texts in the order the claim fixes, and the rule of each.
CauseOrder ==
    <<"Surconsommation energetique", "Fuite probable detectee",
      "Usure pompe ou encrassement", "Niveau reservoir critique">>

RuleMatches(k, point, baseline) ==
    CASE k = 1 -> ZAbove(point.kwhM3, baseline.kwhM3, 2, 1)
      [] k = 2 -> /\ ZAbove(point.debit, baseline.debit, 3, 2)
                  /\ baseline.reservoir.n * point.reservoir < baseline.reservoir.sum
      [] k = 3 -> /\ ZAbove(point.kwhM3, baseline.kwhM3, 3, 2)
                  /\ ZBelow(point.debit, baseline.debit, 1, 2)
      [] k = 4 -> point.reservoir < 30

MatchingRules(point, baseline) ==
    SelectSeq(<<1, 2, 3, 4>>, LAMBDA k : RuleMatches(k, point, baseline))

\* C23: a flagged reading's probableCause is the texts of exactly the rules
\* that match, in the fixed order, or the unidentified-anomaly text when none
\* matches; a reading that is not flagged is reported 'Normal'.
C23_CauseNamesTheMatchingRules ==
    (detPc = "done" /\ ~InsufficientData(data)) =>
      \A i \in 1..Len(results) :
        LET matching == MatchingRules(data[i], calculateBaseline(data))
        IN IF results[i].isAnomaly
           THEN results[i].probableCause =
                  (IF matching = <<>> THEN <<"Anomalie non identifiee">>
                   ELSE [j \in 1..Len(matching) |-> CauseOrder[matching[j]]])
           ELSE results[i].probableCause = <<"Normal">>

\* One batch with a reading that carries several causes, one flagged with
\* none of the rules matching, and one that is not flagged.
C23_Witness ==
    /\ detPc = "done"
    /\ \E i \in 1..Len(results) : Len(results[i].probableCause) >= 2
    /\ \E i \in 1..Len(results) :
         results[i].probableCause = <<"Anomalie non identifiee">>
    /\ \E i \in 1..Len(results) : results[i].probableCause = <<"Normal">>

\* The depth of a tree: the longest path from its root to a leaf.
RECURSIVE TreeDepth(_)
TreeDepth(t) ==
    IF t.isLeaf THEN 0
    ELSE 1 + MathMax(TreeDepth(t.left[1]), TreeDepth(t.right[1]))

\* The readings the leaves of a tree hold, all together.
RECURSIVE LeafTotal(_)
LeafTotal(t) ==
    IF t.isLeaf THEN t.size ELSE LeafTotal(t.left[1]) + LeafTotal(t.right[1])

\* Every leaf of t less than `room` levels down holds at most 1 reading.
RECURSIVE ShallowLeavesSmall(_, _)
ShallowLeavesSmall(t, room) ==
    IF t.isLeaf THEN room <= 0 \/ t.size <= 1
    ELSE /\ ShallowLeavesSmall(t.left[1], room - 1)
         /\ ShallowLeavesSmall(t.right[1], room - 1)

\* C24: a tree built for a sample is at most ceil(log2(sampleSize)) deep,
\* its leaves above that depth hold at most 1 reading, and its leaves hold
\* the sample's readings once each; a sample of identical readings gets a
\* tree as well.
C24_TreeBoundedAndComplete ==
    /\ builtTree = <<>> => ForestTrees(data) # {}
    /\ builtTree # <<>> =>
         LET sampleSize == IF MAX_SAMPLES < Len(data) THEN MAX_SAMPLES ELSE Len(data)
         IN /\ TreeDepth(builtTree[1]) <= CeilLog2(sampleSize)
            /\ ShallowLeavesSmall(builtTree[1], CeilLog2(sampleSize))
            /\ LeafTotal(builtTree[1]) = sampleSize

\* The tree of a batch whose readings are all the same: every split leaves
\* one child empty and the tree runs down to the depth limit, where one leaf
\* holds the whole sample.
C24_Witness ==
    /\ builtTree # <<>>
    /\ \A i \in 1..Len(data) : \A f \in Features : data[i][f] = data[1][f]
    /\ ~builtTree[1].isLeaf
    /\ builtTree[1].left[1].isLeaf
    /\ builtTree[1].left[1].size = 0
    /\ TreeDepth(builtTree[1]) = CeilLog2(Len(data))

\* C25: the front returned has as many samples as asked for, in
\* non-decreasing cost order; every schedule has one entry per hour, all
\* pumps at every hour whose tariff is below the low-tariff threshold and all
\* or all but one at every other hour; no stability is negative.
C25_FrontSizedSortedAndShaped ==
    frontPc = "done" =>
      /\ Len(front) = points
      /\ \A i \in 1..(Len(front) - 1) : front[i].cost <= front[i + 1].cost
      /\ \A i \in 1..Len(front) :
           /\ Len(front[i].schedule) = HOURS
           /\ \A h \in 1..HOURS :
                IF frontParams.tariffs[h] < 100
                THEN front[i].schedule[h] = frontParams.constraints.maxActivePumps
                ELSE front[i].schedule[h] \in
                       {frontParams.constraints.maxActivePumps - 1,
                        frontParams.constraints.maxActivePumps}
           /\ front[i].stability >= 0

\* A front of two samples of different cost that differ at an hour whose
\* tariff is exactly the threshold.
C25_Witness ==
    /\ frontPc = "done"
    /\ Len(front) = 2
    /\ front[1].cost < front[2].cost
    /\ \E h \in 1..HOURS :
         /\ frontParams.tariffs[h] = 100
         /\ front[1].schedule[h] # front[2].schedule[h]

\* The predicted series with a perfect prediction at every position whose
\* actual value is 0.
PerfectAtZero(pred, act) ==
    [i \in 1..Len(pred) |-> IF act[i] = 0 THEN 0 ELSE pred[i]]

\* C26: within5Percent is the rounded percentage of the positions whose
\* absolute error is at most 5 percent of the actual value, so that a
\* position with actual 0 and another predicted value does not count; such a
\* position adds to MAPE what a perfect prediction adds, nothing.
C26_WithinFiveCountsRelativeError ==
    (accPc = "done" /\ ~Mismatched(predicted, actual)) =>
      LET n == Len(predicted)
          within == {i \in 1..n :
                       100 * AbsError(predicted[i], actual[i]) <= 5 * actual[i]}
      IN /\ accuracy.within5Percent = MathRound(100 * Cardinality(within), n)
         /\ accuracy.mape =
              calculatePredictionAccuracy(PerfectAtZero(predicted, actual),
                                          actual).mape

\* C27: the power factor of the result lies in [0.85, 1.00], also when more
\* pumps may run at a time than pump descriptors were given.
C27_PowerFactorInRange ==
    (pc = "done" /\ ValidInput(params)) =>
        /\ 85 <= result.cosPhi
        /\ result.cosPhi <= 100

\* C28: the call returns one entry per reading at index i >= windowSize,
\* with that reading's timestamp and a score detectAnomalies gives the last
\* reading of the window before it; below a window of 10 every score is 0.
C28_TimelineOfWindowScores ==
    /\ tlPc # "threw"
    /\ tlPc = "done" =>
         /\ Len(timeline) = MathMax(0, Len(tlData) - windowSize)
         /\ \A k \in 1..Len(timeline) :
              /\ timeline[k].timestamp = tlData[windowSize + k].timestamp
              /\ \E res \in detectAnomalies(
                               Window(tlData, windowSize + k - 1, windowSize)) :
                   timeline[k].score = res[Len(res)].score
              /\ (windowSize < 10 => timeline[k].score = 0)

\* C29: at most one syncData pass is in progress at any time.  syncStatus is
\* 'syncing' exactly while a pass runs, so no pass leaves it at 'syncing'; a
\* syncData call (direct, or from setOnlineStatus) made while a pass runs or
\* while the store is offline leaves the pass, the database queue and the
\* store's state as they are; and every pass ends with syncStatus 'idle' or
\* 'error'.
C29_OnePassAtATime ==
    /\ [](syncStatus = "syncing" <=> passPc # "off")
    /\ [][((CallSyncData \/ GoOnline) /\ (passPc # "off" \/ ~isOnline'))
            => UNCHANGED <<syncStatus, passPc, passItems, dbQueue, syncQueue,
                           pendingSyncCount>>]_vars
    /\ (syncStatus = "syncing" ~> syncStatus \in {"idle", "error"})

\* A pass is at work on the items it read, the store is online and listens,
\* and the database holds an item the pass no longer has: the next call of
\* syncData arrives during the pass.
C29_Witness ==
    /\ syncStatus = "syncing"
    /\ passPc = "items"
    /\ passItems # <<>>
    /\ isOnline
    /\ listening
    /\ Len(dbQueue) > Len(passItems)

\* C30: in every state reachable by demo logins, password logins, navigation
\* clicks and logouts, a technicien is shown neither the regional nor the DG
\* dashboard and a regional manager is not shown the DG dashboard.
C30_DashboardsFollowTheRole ==
    /\ user.role = "technicien" => Shown \notin {"RegionalDashboard", "DGDashboard"}
    /\ user.role = "regional" => Shown # "DGDashboard"

====
